---- MODULE Spec2Model ----
(***************************************************************************)
(* Model of the xpropagator core: the satellite registry (package gc), the *)
(* DLL gate and per-key lock table (package core_helpers) and the Prop and *)
(* Ephem handlers (package core).                                          *)
(***************************************************************************)
EXTENDS Integers, Sequences, FiniteSets, TLC

\* ------------------------------------------------------------------------
\* Bounds of the model
\* ------------------------------------------------------------------------
MaxTime == 2

NumSats == 2

MaxTasks == 2

MaxChunks == 2

GridEnd == 4

\* ------------------------------------------------------------------------
\* Program constants and configuration
\* ------------------------------------------------------------------------
maxLoaded == 1

idleTTL == 1

DllGateCap == 1

StreamChunkSize == 2

GridStart == 0

StepLen == 2

Eps == 1

None == "none"

Clients == {"c1", "c2"}

\* the direct callers of the registry when three of them run concurrently
Callers == Clients \cup {"c3"}

Sweeper == "sw"

Sats == 1 .. NumSats

Keys == Sats

BadLine == 0

Lines == Sats \cup {BadLine}

Reqs == {"r1", "r2"}

InfoProc == "info"

\* the goroutine that calls GC.Close
Closer == "closer"

\* the goroutine that calls GC.WaitAllReleased directly
Waiter == "waiter"

\* the goroutine that calls GC.RemoveAll
Remover == "remover"

Procs == Callers \cup Reqs \cup {Sweeper, InfoProc, Closer, Waiter, Remover}

VARIABLES
  loaded,      \* GC.loaded: key -> SatEntry
  tle,         \* keys present in the native TLE layer
  sgp4,        \* keys initialised in the native SGP4 layer
  catalogMu,   \* holder of catalogMu
  rwW,         \* per-key RWMutex: the writer that holds or has announced Lock
  rwReaders,   \* per-key RWMutex: number of read locks held
  gate,        \* processes holding a permit of the DLL gate
  native,      \* the native call each process is executing
  errMu,       \* holder of core_helpers.errMu
  now,         \* the wall clock read by time.Now()
  pc,          \* position of each process
  line,        \* Acquire argument l1 (its catalog-number field)
  ctxDone,     \* whether the context passed to the call is cancelled
  key,         \* the local variable key of Acquire / addOrInitSat
  victims,     \* the victims still to be processed by removeVictims
  relT,        \* the local variable now of the release closure
  cont,        \* where WithDllCall's caller continues after the error read
  env,         \* what the environment does in this run: native failures, cancellation
  globMu,      \* holder of core.globMu
  globErrMu,   \* holder of core.globErrMu
  h,           \* per request: the handler's locals, its sender goroutine and its stream
  call         \* a direct call of a function: its arguments and its result

gcVars == <<loaded, tle, sgp4, catalogMu, rwW, rwReaders, gate, native, errMu, now>>

procVars == <<pc, line, ctxDone, key, victims, relT, cont, env, call>>

hVars == <<globMu, globErrMu, h>>

vars == <<gcVars, procVars, hVars>>

\* ------------------------------------------------------------------------
\* Helpers
\* ------------------------------------------------------------------------
Min(a, b) == IF a < b THEN a ELSE b

\* all duplicate-free sequences enumerating the set S
RECURSIVE Perms(_)
Perms(S) ==
  IF S = {} THEN {<<>>}
  ELSE UNION {{<<x>> \o t : t \in Perms(S \ {x})} : x \in S}

\* the decimal digits, in order of value
DigitChars == <<"0", "1", "2", "3", "4", "5", "6", "7", "8", "9">>

IsDigit(ch) == \E i \in 1 .. 10 : DigitChars[i] = ch

DigitVal(ch) == (CHOOSE i \in 1 .. 10 : DigitChars[i] = ch) - 1

\* the bytes 'A' .. 'Z', in order
UpperChars ==
  <<"A", "B", "C", "D", "E", "F", "G", "H", "I", "J", "K", "L", "M",
    "N", "O", "P", "Q", "R", "S", "T", "U", "V", "W", "X", "Y", "Z">>

\* letter >= 'A' && letter <= 'Z'
IsUpper(ch) == \E i \in 1 .. 26 : UpperChars[i] = ch

\* letter - 'A'
UpperOffset(ch) == (CHOOSE i \in 1 .. 26 : UpperChars[i] = ch) - 1

\* the value of a string of decimal digits
RECURSIVE DecimalValue(_)
DecimalValue(s) ==
  IF s = <<>> THEN 0
  ELSE DecimalValue(SubSeq(s, 1, Len(s) - 1)) * 10 + DigitVal(s[Len(s)])

\* strconv.Atoi: an optional sign, then one or more decimal digits
Atoi(s) ==
  LET signed == s # <<>> /\ s[1] \in {"+", "-"}
      body   == IF signed THEN Tail(s) ELSE s
  IN  IF body = <<>> \/ \E i \in 1 .. Len(body) : ~IsDigit(body[i])
      THEN [ok |-> FALSE, n |-> 0]
      ELSE [ok |-> TRUE,
            n  |-> IF s[1] = "-" THEN 0 - DecimalValue(body)
                   ELSE DecimalValue(body)]

\* strings.TrimSpace
RECURSIVE TrimSpace(_)
TrimSpace(s) ==
  IF s = <<>> THEN s
  ELSE IF s[1] = " " THEN TrimSpace(Tail(s))
  ELSE IF s[Len(s)] = " " THEN TrimSpace(SubSeq(s, 1, Len(s) - 1))
  ELSE s

ParseError == [ok |-> FALSE, n |-> 0]

\* parseSatNum, on the bytes of TLE line 1
parseSatNum(l1) ==
  IF Len(l1) < 7 THEN ParseError
  ELSE LET s       == TrimSpace(SubSeq(l1, 3, 7))
           numeric == Atoi(s)
           letter  == s[1]
           num     == Atoi(Tail(s))
           satnum  == (UpperOffset(letter) + 10) * 10000 + num.n
       IN  IF Len(s) # 5 THEN ParseError
           ELSE IF numeric.ok /\ numeric.n >= 1 /\ numeric.n <= 99999
                THEN [ok |-> TRUE, n |-> numeric.n]
           ELSE IF /\ IsUpper(letter)
                   /\ letter \notin {"I", "O"}
                   /\ num.ok
                   /\ num.n >= 0
                   /\ num.n <= 9999
                   /\ satnum >= 100000
                   /\ satnum <= 359999
                THEN [ok |-> TRUE, n |-> satnum]
           ELSE ParseError

\* the first seven bytes of the TLE line 1 a caller passes for line l
Line1Of(l) ==
  IF l = BadLine THEN <<"1", " ", "A", "B", "C", "D", "E">>
  ELSE <<"1", " ", "0", "0", "0", "0", DigitChars[l + 1]>>

\* parseSatNum, on the line a caller passes
ParseOk(l) == parseSatNum(Line1Of(l)).ok

\* the key the native TLE layer gives a catalog number
KeyOf(n) == n

\* dllcore.TleGetSatKey
TleGetSatKey(n) == IF KeyOf(n) \in tle THEN KeyOf(n) ELSE -1

\* ------------------------------------------------------------------------
\* Control flow helpers
\* ------------------------------------------------------------------------
Goto(p, l) == pc' = [pc EXCEPT ![p] = l]

\* where the caller of Acquire continues
AcqOkPc(p) ==
  IF p \in Callers THEN "held"
  ELSE IF h[p].kind = "Ephem" THEN "e_run" ELSE "p_prop"

AcqFailPc(p) ==
  IF p \in Callers THEN "idle"
  ELSE IF h[p].kind = "Ephem" THEN "e_acqfail" ELSE "p_acqfail"

\* where the caller of removeVictims continues
RmDonePc(p) == IF p = Sweeper THEN "sw_idle" ELSE "add_catlock"

RmNextPc(p, vs) == IF vs = <<>> THEN RmDonePc(p) ELSE "rm_lock"

\* ------------------------------------------------------------------------
\* core_helpers.WithDllCall
\* ------------------------------------------------------------------------
GateFree == Cardinality(gate) < DllGateCap

\* select { case g.ch <- struct{}{}: ... }; rc := call()
DllEnter(p, name, inLabel) ==
  /\ GateFree
  /\ gate' = gate \cup {p}
  /\ native' = [native EXCEPT ![p] = name]
  /\ Goto(p, inLabel)

\* call() returns; <-g.ch
DllLeave(p) ==
  /\ gate' = gate \ {p}
  /\ native' = [native EXCEPT ![p] = None]

\* rc != 0: errMu.Lock(); msg := dllcore.GetLastErrMsg()
ErrReadEnter(p) ==
  /\ pc[p] = "dll_err"
  /\ errMu = None
  /\ errMu' = p
  /\ native' = [native EXCEPT ![p] = "GetLastErrMsg"]
  /\ Goto(p, "dll_err_in")
  /\ UNCHANGED <<loaded, tle, sgp4, catalogMu, rwW, rwReaders, gate, now>>
  /\ UNCHANGED <<hVars, env, call, line, ctxDone, key, victims, relT, cont>>

\* errMu.Unlock(); return fmt.Errorf(...)
ErrReadExit(p) ==
  /\ pc[p] = "dll_err_in"
  /\ errMu' = None
  /\ native' = [native EXCEPT ![p] = None]
  /\ Goto(p, cont[p])
  /\ UNCHANGED <<loaded, tle, sgp4, catalogMu, rwW, rwReaders, gate, now>>
  /\ UNCHANGED <<hVars, env, call, line, ctxDone, key, victims, relT, cont>>

\* ------------------------------------------------------------------------
\* GC.evictLRUIfNeeded
\* ------------------------------------------------------------------------
\* an eviction that sorts the candidates newest first
LRUVictimLists_NewestFirst(need) ==
  LET excess == Cardinality(DOMAIN loaded) + need - maxLoaded
      cand   == {k \in DOMAIN loaded : loaded[k].refs = 0}
      sorted == {s \in Perms(cand) :
                   \A i \in 1 .. Len(s) - 1 :
                      loaded[s[i]].lastUsed >= loaded[s[i + 1]].lastUsed}
  IN  IF excess <= 0 \/ cand = {}
      THEN {<<>>}
      ELSE {SubSeq(s, 1, Min(excess, Len(s))) : s \in sorted}

\* the candidates sorted by lastUsed (sort.Slice leaves the order of equal
\* timestamps open), cut to the first excess
LRUVictimLists(need) ==
  LET excess == Cardinality(DOMAIN loaded) + need - maxLoaded
      cand   == {k \in DOMAIN loaded : loaded[k].refs = 0}
      sorted == {s \in Perms(cand) :
                   \A i \in 1 .. Len(s) - 1 :
                      loaded[s[i]].lastUsed <= loaded[s[i + 1]].lastUsed}
  IN  IF excess <= 0 \/ cand = {}
      THEN {<<>>}
      ELSE {SubSeq(s, 1, Min(excess, Len(s))) : s \in sorted}

\* ------------------------------------------------------------------------
\* GC.removeVictims (called by Acquire's LRU path and by the sweeper)
\* ------------------------------------------------------------------------
\* mu.Lock(), first half: the writer takes the writer slot, which keeps new
\* readers out
RmLock(p) ==
  /\ pc[p] = "rm_lock"
  /\ rwW[Head(victims[p])] = None
  /\ rwW' = [rwW EXCEPT ![Head(victims[p])] = p]
  /\ Goto(p, "rm_lockwait")
  /\ UNCHANGED <<loaded, tle, sgp4, catalogMu, rwReaders, gate, native, errMu, now>>
  /\ UNCHANGED <<hVars, env, call, line, ctxDone, key, victims, relT, cont>>

\* a writer lock that does not wait for the readers to leave
RmLockReady_IgnoreReaders(k) == k \in Keys

\* mu.Lock(), second half: the writer waits for the readers to leave
RmLockReady(k) == rwReaders[k] = 0

RmLockWait(p) ==
  /\ pc[p] = "rm_lockwait"
  /\ RmLockReady(Head(victims[p]))
  /\ Goto(p, "rm_catlock")
  /\ UNCHANGED gcVars
  /\ UNCHANGED <<hVars, env, call, line, ctxDone, key, victims, relT, cont>>

\* catalogMu.Lock()
RmCatLock(p) ==
  /\ pc[p] = "rm_catlock"
  /\ catalogMu = None
  /\ catalogMu' = p
  /\ Goto(p, "rm_check")
  /\ UNCHANGED <<loaded, tle, sgp4, rwW, rwReaders, gate, native, errMu, now>>
  /\ UNCHANGED <<hVars, env, call, line, ctxDone, key, victims, relT, cont>>

\* if e := g.loaded[key]; e != nil && e.refs == 0 { shouldRemove = true }
ShouldRemove(k) == k \in DOMAIN loaded /\ loaded[k].refs = 0

RmCheck(p) ==
  /\ pc[p] = "rm_check"
  /\ LET k == Head(victims[p]) IN
       IF ShouldRemove(k)
       THEN /\ Goto(p, "rm_sgp4")
            /\ UNCHANGED <<catalogMu, rwW, victims>>
       ELSE /\ catalogMu' = None
            /\ rwW' = [rwW EXCEPT ![k] = None]
            /\ victims' = [victims EXCEPT ![p] = Tail(victims[p])]
            /\ Goto(p, RmNextPc(p, Tail(victims[p])))
  /\ UNCHANGED <<loaded, tle, sgp4, rwReaders, gate, native, errMu, now>>
  /\ UNCHANGED <<hVars, env, call, line, ctxDone, key, relT, cont>>

\* _ = WithDllCall(ctx, Sgp4RemoveSat(key)): permit, or ctx.Done()
RmSgp4Enter(p) ==
  /\ pc[p] = "rm_sgp4"
  /\ \/ /\ DllEnter(p, "Sgp4RemoveSat", "rm_sgp4_in")
     \/ /\ ctxDone[p]
        /\ Goto(p, "rm_tle")
        /\ UNCHANGED <<gate, native>>
  /\ UNCHANGED <<loaded, tle, sgp4, catalogMu, rwW, rwReaders, errMu, now>>
  /\ UNCHANGED <<hVars, env, call, line, ctxDone, key, victims, relT, cont>>

RmSgp4Exit(p) ==
  /\ pc[p] = "rm_sgp4_in"
  /\ DllLeave(p)
  /\ \/ /\ sgp4' = sgp4 \ {Head(victims[p])}
        /\ Goto(p, "rm_tle")
        /\ UNCHANGED cont
     \/ /\ env.faults
        /\ Goto(p, "dll_err")
        /\ cont' = [cont EXCEPT ![p] = "rm_tle"]
        /\ UNCHANGED sgp4
  /\ UNCHANGED <<loaded, tle, catalogMu, rwW, rwReaders, errMu, now>>
  /\ UNCHANGED <<hVars, env, call, line, ctxDone, key, victims, relT>>

\* _ = WithDllCall(ctx, TleRemoveSat(key))
RmTleEnter(p) ==
  /\ pc[p] = "rm_tle"
  /\ \/ /\ DllEnter(p, "TleRemoveSat", "rm_tle_in")
     \/ /\ ctxDone[p]
        /\ Goto(p, "rm_delete")
        /\ UNCHANGED <<gate, native>>
  /\ UNCHANGED <<loaded, tle, sgp4, catalogMu, rwW, rwReaders, errMu, now>>
  /\ UNCHANGED <<hVars, env, call, line, ctxDone, key, victims, relT, cont>>

RmTleExit(p) ==
  /\ pc[p] = "rm_tle_in"
  /\ DllLeave(p)
  /\ \/ /\ tle' = tle \ {Head(victims[p])}
        /\ Goto(p, "rm_delete")
        /\ UNCHANGED cont
     \/ /\ env.faults
        /\ Goto(p, "dll_err")
        /\ cont' = [cont EXCEPT ![p] = "rm_delete"]
        /\ UNCHANGED tle
  /\ UNCHANGED <<loaded, sgp4, catalogMu, rwW, rwReaders, errMu, now>>
  /\ UNCHANGED <<hVars, env, call, line, ctxDone, key, victims, relT>>

\* a removal that keeps the entry and returns when a native removal failed
RmDelete_KeepOnFailure(p) ==
  /\ pc[p] = "rm_delete"
  /\ LET k == Head(victims[p]) IN
       IF cont[p] \in {"rm_tle", "rm_delete"}
       THEN /\ rwW' = [rwW EXCEPT ![k] = None]
            /\ victims' = [victims EXCEPT ![p] = <<>>]
            /\ Goto(p, IF p = Sweeper THEN "sw_idle" ELSE "acq_fail")
            /\ UNCHANGED loaded
       ELSE /\ loaded' = [x \in DOMAIN loaded \ {k} |-> loaded[x]]
            /\ rwW' = [rwW EXCEPT ![k] = None]
            /\ victims' = [victims EXCEPT ![p] = Tail(victims[p])]
            /\ Goto(p, RmNextPc(p, Tail(victims[p])))
  /\ catalogMu' = None
  /\ UNCHANGED <<tle, sgp4, rwReaders, gate, native, errMu, now>>
  /\ UNCHANGED <<hVars, env, call, line, ctxDone, key, relT, cont>>

\* delete(g.loaded, key); catalogMu.Unlock(); mu.Unlock()
RmDelete(p) ==
  /\ pc[p] = "rm_delete"
  /\ LET k == Head(victims[p]) IN
       /\ loaded' = [x \in DOMAIN loaded \ {k} |-> loaded[x]]
       /\ rwW' = [rwW EXCEPT ![k] = None]
  /\ catalogMu' = None
  /\ victims' = [victims EXCEPT ![p] = Tail(victims[p])]
  /\ Goto(p, RmNextPc(p, Tail(victims[p])))
  /\ UNCHANGED <<tle, sgp4, rwReaders, gate, native, errMu, now>>
  /\ UNCHANGED <<hVars, env, call, line, ctxDone, key, relT, cont>>

\* ------------------------------------------------------------------------
\* GC.Acquire
\* ------------------------------------------------------------------------
\* satNum, err := parseSatNum(l1)
AcqParse(p) ==
  /\ pc[p] = "acq"
  /\ Goto(p, IF ParseOk(line[p]) THEN "acq_catlock" ELSE "acq_fail")
  /\ UNCHANGED gcVars
  /\ UNCHANGED <<hVars, env, call, line, ctxDone, key, victims, relT, cont>>

\* catalogMu.Lock()
AcqCatLock(p) ==
  /\ pc[p] = "acq_catlock"
  /\ catalogMu = None
  /\ catalogMu' = p
  /\ Goto(p, "acq_getkey")
  /\ UNCHANGED <<loaded, tle, sgp4, rwW, rwReaders, gate, native, errMu, now>>
  /\ UNCHANGED <<hVars, env, call, line, ctxDone, key, victims, relT, cont>>

\* WithDllCall(ctx, TleGetSatKey): permit, or ctx.Done() and
\* catalogMu.Unlock(); return err
AcqGetKeyEnter(p) ==
  /\ pc[p] = "acq_getkey"
  /\ \/ /\ DllEnter(p, "TleGetSatKey", "acq_getkey_in")
        /\ UNCHANGED catalogMu
     \/ /\ ctxDone[p]
        /\ catalogMu' = None
        /\ Goto(p, "acq_fail")
        /\ UNCHANGED <<gate, native>>
  /\ UNCHANGED <<loaded, tle, sgp4, rwW, rwReaders, errMu, now>>
  /\ UNCHANGED <<hVars, env, call, line, ctxDone, key, victims, relT, cont>>

\* existing == -1: catalogMu.Unlock(); victims := g.evictLRUIfNeeded(1)
\* otherwise: key := existing
AcqGetKeyExit(p) ==
  /\ pc[p] = "acq_getkey_in"
  /\ DllLeave(p)
  /\ IF TleGetSatKey(line[p]) = -1
     THEN /\ catalogMu' = None
          /\ Goto(p, "acq_evict")
          /\ UNCHANGED key
     ELSE /\ key' = [key EXCEPT ![p] = TleGetSatKey(line[p])]
          /\ Goto(p, "hit_rlock")
          /\ UNCHANGED catalogMu
  /\ UNCHANGED <<loaded, tle, sgp4, rwW, rwReaders, errMu, now>>
  /\ UNCHANGED <<hVars, env, call, line, ctxDone, victims, relT, cont>>

\* victims := g.evictLRUIfNeeded(1)
AcqEvict(p) ==
  /\ pc[p] = "acq_evict"
  /\ \E vs \in LRUVictimLists(1) :
       /\ victims' = [victims EXCEPT ![p] = vs]
       /\ Goto(p, RmNextPc(p, vs))
  /\ UNCHANGED gcVars
  /\ UNCHANGED <<hVars, env, call, line, ctxDone, key, relT, cont>>

\* addOrInitSat: catalogMu.Lock()
AddCatLock(p) ==
  /\ pc[p] = "add_catlock"
  /\ catalogMu = None
  /\ catalogMu' = p
  /\ Goto(p, "add_getkey")
  /\ UNCHANGED <<loaded, tle, sgp4, rwW, rwReaders, gate, native, errMu, now>>
  /\ UNCHANGED <<hVars, env, call, line, ctxDone, key, victims, relT, cont>>

\* addTLE: WithDllCall(ctx, TleGetSatKey)
AddGetKeyEnter(p) ==
  /\ pc[p] = "add_getkey"
  /\ \/ /\ DllEnter(p, "TleGetSatKey", "add_getkey_in")
        /\ UNCHANGED catalogMu
     \/ /\ ctxDone[p]
        /\ catalogMu' = None
        /\ Goto(p, "acq_fail")
        /\ UNCHANGED <<gate, native>>
  /\ UNCHANGED <<loaded, tle, sgp4, rwW, rwReaders, errMu, now>>
  /\ UNCHANGED <<hVars, env, call, line, ctxDone, key, victims, relT, cont>>

\* if existing != -1 { return existing, nil }
AddGetKeyExit(p) ==
  /\ pc[p] = "add_getkey_in"
  /\ DllLeave(p)
  /\ IF TleGetSatKey(line[p]) = -1
     THEN /\ Goto(p, "add_add")
          /\ UNCHANGED key
     ELSE /\ key' = [key EXCEPT ![p] = TleGetSatKey(line[p])]
          /\ Goto(p, "add_rwlock")
  /\ UNCHANGED <<loaded, tle, sgp4, catalogMu, rwW, rwReaders, errMu, now>>
  /\ UNCHANGED <<hVars, env, call, line, ctxDone, victims, relT, cont>>

\* addTLE: WithDllCall(ctx, TleAddSatFrLines)
AddAddEnter(p) ==
  /\ pc[p] = "add_add"
  /\ \/ /\ DllEnter(p, "TleAddSatFrLines", "add_add_in")
        /\ UNCHANGED catalogMu
     \/ /\ ctxDone[p]
        /\ catalogMu' = None
        /\ Goto(p, "acq_fail")
        /\ UNCHANGED <<gate, native>>
  /\ UNCHANGED <<loaded, tle, sgp4, rwW, rwReaders, errMu, now>>
  /\ UNCHANGED <<hVars, env, call, line, ctxDone, key, victims, relT, cont>>

\* key = TleAddSatFrLines(ln1, ln2); key <= 0 is rc 1
AddAddExit(p) ==
  /\ pc[p] = "add_add_in"
  /\ DllLeave(p)
  /\ \/ /\ tle' = tle \cup {KeyOf(line[p])}
        /\ key' = [key EXCEPT ![p] = KeyOf(line[p])]
        /\ Goto(p, "add_rwlock")
        /\ UNCHANGED cont
     \/ /\ env.faults
        /\ Goto(p, "dll_err")
        /\ cont' = [cont EXCEPT ![p] = "add_addfail"]
        /\ UNCHANGED <<tle, key>>
  /\ UNCHANGED <<loaded, sgp4, catalogMu, rwW, rwReaders, errMu, now>>
  /\ UNCHANGED <<hVars, env, call, line, ctxDone, victims, relT>>

\* addOrInitSat: if err != nil { catalogMu.Unlock(); return 0, err }
AddAddFail(p) ==
  /\ pc[p] = "add_addfail"
  /\ catalogMu' = None
  /\ Goto(p, "acq_fail")
  /\ UNCHANGED <<loaded, tle, sgp4, rwW, rwReaders, gate, native, errMu, now>>
  /\ UNCHANGED <<hVars, env, call, line, ctxDone, key, victims, relT, cont>>

\* mu := RwFor(key); mu.Lock(), first half
AddRwLock(p) ==
  /\ pc[p] = "add_rwlock"
  /\ rwW[key[p]] = None
  /\ rwW' = [rwW EXCEPT ![key[p]] = p]
  /\ Goto(p, "add_rwlockwait")
  /\ UNCHANGED <<loaded, tle, sgp4, catalogMu, rwReaders, gate, native, errMu, now>>
  /\ UNCHANGED <<hVars, env, call, line, ctxDone, key, victims, relT, cont>>

\* mu.Lock(), second half; catalogMu.Unlock()
AddRwLockWait(p) ==
  /\ pc[p] = "add_rwlockwait"
  /\ rwReaders[key[p]] = 0
  /\ catalogMu' = None
  /\ Goto(p, "add_init")
  /\ UNCHANGED <<loaded, tle, sgp4, rwW, rwReaders, gate, native, errMu, now>>
  /\ UNCHANGED <<hVars, env, call, line, ctxDone, key, victims, relT, cont>>

\* WithDllCall(ctx, Sgp4InitSat(key)); defer mu.Unlock()
AddInitEnter(p) ==
  /\ pc[p] = "add_init"
  /\ \/ /\ DllEnter(p, "Sgp4InitSat", "add_init_in")
        /\ UNCHANGED rwW
     \/ /\ ctxDone[p]
        /\ rwW' = [rwW EXCEPT ![key[p]] = None]
        /\ Goto(p, "acq_fail")
        /\ UNCHANGED <<gate, native>>
  /\ UNCHANGED <<loaded, tle, sgp4, catalogMu, rwReaders, errMu, now>>
  /\ UNCHANGED <<hVars, env, call, line, ctxDone, key, victims, relT, cont>>

AddInitExit(p) ==
  /\ pc[p] = "add_init_in"
  /\ DllLeave(p)
  /\ \/ /\ sgp4' = sgp4 \cup {key[p]}
        /\ rwW' = [rwW EXCEPT ![key[p]] = None]
        /\ Goto(p, "miss_rlock")
        /\ UNCHANGED cont
     \/ /\ env.faults
        /\ Goto(p, "dll_err")
        /\ cont' = [cont EXCEPT ![p] = "add_initfail"]
        /\ UNCHANGED <<sgp4, rwW>>
  /\ UNCHANGED <<loaded, tle, catalogMu, rwReaders, errMu, now>>
  /\ UNCHANGED <<hVars, env, call, line, ctxDone, key, victims, relT>>

\* an error return of addOrInitSat without the deferred mu.Unlock()
AddInitFail_KeepLock(p) ==
  /\ pc[p] = "add_initfail"
  /\ Goto(p, "acq_fail")
  /\ UNCHANGED gcVars
  /\ UNCHANGED <<hVars, env, call, line, ctxDone, key, victims, relT, cont>>

\* addOrInitSat: return 0, err with the deferred mu.Unlock()
AddInitFail(p) ==
  /\ pc[p] = "add_initfail"
  /\ rwW' = [rwW EXCEPT ![key[p]] = None]
  /\ Goto(p, "acq_fail")
  /\ UNCHANGED <<loaded, tle, sgp4, catalogMu, rwReaders, gate, native, errMu, now>>
  /\ UNCHANGED <<hVars, env, call, line, ctxDone, key, victims, relT, cont>>

\* return 0, nil, err
AcqReturnErr(p) ==
  /\ pc[p] = "acq_fail"
  /\ Goto(p, AcqFailPc(p))
  /\ line' = [line EXCEPT ![p] = BadLine]
  /\ ctxDone' = [ctxDone EXCEPT ![p] = IF p \in Callers THEN FALSE ELSE @]
  /\ key' = [key EXCEPT ![p] = 0]
  /\ cont' = [cont EXCEPT ![p] = None]
  /\ UNCHANGED gcVars
  /\ UNCHANGED <<hVars, env, call, victims, relT>>

\* the registry update of Acquire, under g.mu
Inserted(k, n) ==
  IF k \in DOMAIN loaded
  THEN [loaded EXCEPT ![k].refs = @ + 1, ![k].lastUsed = now]
  ELSE [x \in DOMAIN loaded \cup {k} |->
          IF x = k THEN [satNum |-> n, lastUsed |-> now, refs |-> 1]
          ELSE loaded[x]]

\* miss path: mu := RwFor(key); mu.RLock()
MissRLock(p) ==
  /\ pc[p] = "miss_rlock"
  /\ rwW[key[p]] = None
  /\ rwReaders' = [rwReaders EXCEPT ![key[p]] = @ + 1]
  /\ Goto(p, "miss_insert")
  /\ UNCHANGED <<loaded, tle, sgp4, catalogMu, rwW, gate, native, errMu, now>>
  /\ UNCHANGED <<hVars, env, call, line, ctxDone, key, victims, relT, cont>>

\* miss path: g.mu.Lock(); insert or refs++; return key, makeReleaser(...)
MissInsert(p) ==
  /\ pc[p] = "miss_insert"
  /\ loaded' = Inserted(key[p], line[p])
  /\ Goto(p, AcqOkPc(p))
  /\ UNCHANGED <<tle, sgp4, catalogMu, rwW, rwReaders, gate, native, errMu, now>>
  /\ UNCHANGED <<hVars, env, call, line, ctxDone, key, victims, relT, cont>>

\* hit path: mu.RLock(); catalogMu.Unlock()
HitRLock(p) ==
  /\ pc[p] = "hit_rlock"
  /\ rwW[key[p]] = None
  /\ rwReaders' = [rwReaders EXCEPT ![key[p]] = @ + 1]
  /\ catalogMu' = None
  /\ Goto(p, "hit_insert")
  /\ UNCHANGED <<loaded, tle, sgp4, rwW, gate, native, errMu, now>>
  /\ UNCHANGED <<hVars, env, call, line, ctxDone, key, victims, relT, cont>>

\* hit path: g.mu.Lock(); insert or refs++; return key, makeReleaser(...)
HitInsert(p) ==
  /\ pc[p] = "hit_insert"
  /\ loaded' = Inserted(key[p], line[p])
  /\ Goto(p, AcqOkPc(p))
  /\ UNCHANGED <<tle, sgp4, catalogMu, rwW, rwReaders, gate, native, errMu, now>>
  /\ UNCHANGED <<hVars, env, call, line, ctxDone, key, victims, relT, cont>>

\* ------------------------------------------------------------------------
\* GC.makeReleaser: the release closure
\* ------------------------------------------------------------------------
\* where the caller of the release closure continues
RelDonePc(p) ==
  IF p \in Callers THEN "idle"
  ELSE IF h[p].kind = "Ephem" THEN "e_after" ELSE "p_after"

\* now := time.Now()
RelNow(p) ==
  /\ pc[p] = "rel"
  /\ relT' = [relT EXCEPT ![p] = now]
  /\ Goto(p, "rel_dec")
  /\ UNCHANGED gcVars
  /\ UNCHANGED <<hVars, env, call, line, ctxDone, key, victims, cont>>

\* a release closure that forgets e.refs--
Released_KeepRefs(k, t) ==
  IF k \in DOMAIN loaded /\ loaded[k].refs > 0
  THEN [loaded EXCEPT ![k].lastUsed = t]
  ELSE loaded

\* if e := g.loaded[key]; e != nil && e.refs > 0 { e.refs--; e.lastUsed = now }
Released(k, t) ==
  IF k \in DOMAIN loaded /\ loaded[k].refs > 0
  THEN [loaded EXCEPT ![k].refs = @ - 1, ![k].lastUsed = t]
  ELSE loaded

RelDec(p) ==
  /\ pc[p] = "rel_dec"
  /\ loaded' = Released(key[p], relT[p])
  /\ Goto(p, "rel_runlock")
  /\ UNCHANGED <<tle, sgp4, catalogMu, rwW, rwReaders, gate, native, errMu, now>>
  /\ UNCHANGED <<hVars, env, call, line, ctxDone, key, victims, relT, cont>>

\* runlock(); sync.RWMutex.RUnlock with no reader left is a fatal error of
\* the runtime, which ends the process
RelRUnlock(p) ==
  /\ pc[p] = "rel_runlock"
  /\ IF rwReaders[key[p]] = 0
     THEN /\ pc' = [q \in Procs |-> "dead"]
          /\ UNCHANGED <<rwReaders, line, ctxDone, key, relT, cont>>
     ELSE /\ rwReaders' = [rwReaders EXCEPT ![key[p]] = @ - 1]
          /\ Goto(p, RelDonePc(p))
          /\ line' = [line EXCEPT ![p] = BadLine]
          /\ ctxDone' = [ctxDone EXCEPT
                           ![p] = IF p \in Callers THEN FALSE ELSE @]
          /\ key' = [key EXCEPT ![p] = 0]
          /\ relT' = [relT EXCEPT ![p] = 0]
          /\ cont' = [cont EXCEPT ![p] = None]
  /\ UNCHANGED <<loaded, tle, sgp4, catalogMu, rwW, gate, native, errMu, now>>
  /\ UNCHANGED <<hVars, env, call, victims>>

\* the caller keeps the closure after its first run and invokes it again:
\* runlock() of the first run, then now := time.Now() of the second
RelAgain(p) ==
  /\ pc[p] = "rel_runlock"
  /\ rwReaders[key[p]] > 0
  /\ rwReaders' = [rwReaders EXCEPT ![key[p]] = @ - 1]
  /\ relT' = [relT EXCEPT ![p] = now]
  /\ Goto(p, "rel2_dec")
  /\ UNCHANGED <<loaded, tle, sgp4, catalogMu, rwW, gate, native, errMu, now>>
  /\ UNCHANGED <<hVars, env, call, line, ctxDone, key, victims, cont>>

\* second run: if e := g.loaded[key]; e != nil && e.refs > 0 { e.refs-- ... }
Rel2Dec(p) ==
  /\ pc[p] = "rel2_dec"
  /\ loaded' = Released(key[p], relT[p])
  /\ Goto(p, "rel2_runlock")
  /\ UNCHANGED <<tle, sgp4, catalogMu, rwW, rwReaders, gate, native, errMu, now>>
  /\ UNCHANGED <<hVars, env, call, line, ctxDone, key, victims, relT, cont>>

\* second run: runlock(); sync.RWMutex.RUnlock with no reader left is a
\* fatal error of the runtime, which ends the process
Rel2RUnlock(p) ==
  /\ pc[p] = "rel2_runlock"
  /\ IF rwReaders[key[p]] = 0
     THEN /\ pc' = [q \in Procs |-> "dead"]
          /\ UNCHANGED <<rwReaders, line, ctxDone, key, relT, cont>>
     ELSE /\ rwReaders' = [rwReaders EXCEPT ![key[p]] = @ - 1]
          /\ Goto(p, RelDonePc(p))
          /\ line' = [line EXCEPT ![p] = BadLine]
          /\ ctxDone' = [ctxDone EXCEPT ![p] = FALSE]
          /\ key' = [key EXCEPT ![p] = 0]
          /\ relT' = [relT EXCEPT ![p] = 0]
          /\ cont' = [cont EXCEPT ![p] = None]
  /\ UNCHANGED <<loaded, tle, sgp4, catalogMu, rwW, gate, native, errMu, now>>
  /\ UNCHANGED <<hVars, env, call, victims>>

\* ------------------------------------------------------------------------
\* GC.sweeper
\* ------------------------------------------------------------------------
\* e.refs == 0 && now.Sub(e.lastUsed) > g.idleTTL
TTLVictim(k) == loaded[k].refs = 0 /\ now - loaded[k].lastUsed > idleTTL

\* case now := <-t.C: collect the victims in map iteration order
SweepScan ==
  /\ pc[Sweeper] = "sw_idle"
  /\ \E vs \in Perms({k \in DOMAIN loaded : TTLVictim(k)}) :
       /\ victims' = [victims EXCEPT ![Sweeper] = vs]
       /\ Goto(Sweeper, RmNextPc(Sweeper, vs))
  /\ UNCHANGED gcVars
  /\ UNCHANGED <<hVars, env, call, line, ctxDone, key, relT, cont>>

\* case <-g.stopCh: return, with the deferred g.wg.Done()
SweepStop ==
  /\ pc[Sweeper] = "sw_idle"
  /\ pc[Closer] # "idle"
  /\ Goto(Sweeper, "sw_exit")
  /\ UNCHANGED gcVars
  /\ UNCHANGED <<hVars, env, call, line, ctxDone, key, victims, relT, cont>>

\* ------------------------------------------------------------------------
\* GC.Close
\* ------------------------------------------------------------------------
\* close(g.stopCh)
Close ==
  /\ pc[Closer] = "idle"
  /\ Goto(Closer, "close_wait")
  /\ UNCHANGED gcVars
  /\ UNCHANGED <<hVars, env, call, line, ctxDone, key, victims, relT, cont>>

\* g.wg.Wait() returns once the sweeper has returned
CloseReturn ==
  /\ pc[Closer] = "close_wait"
  /\ pc[Sweeper] = "sw_exit"
  /\ Goto(Closer, "closed")
  /\ UNCHANGED gcVars
  /\ UNCHANGED <<hVars, env, call, line, ctxDone, key, victims, relT, cont>>

\* ------------------------------------------------------------------------
\* GC.WaitAllReleased
\* ------------------------------------------------------------------------
\* where the caller of WaitAllReleased continues
WaitNilPc(p) == IF p = Remover THEN "ra_sgp4" ELSE "war_nil"

WaitErrPc(p) == IF p = Remover THEN "ra_fail" ELSE "war_err"

\* a direct call of gc.WaitAllReleased(ctx)
WaitCall ==
  /\ pc[Waiter] = "idle"
  /\ Goto(Waiter, "war_select")
  /\ UNCHANGED gcVars
  /\ UNCHANGED <<hVars, env, call, line, ctxDone, key, victims, relT, cont>>

\* the context of the call ends (cancel or deadline)
CtxEnd(p) ==
  /\ pc[p] \notin {"idle", "war_nil", "war_err", "ra_ok", "ra_err"}
  /\ ~ctxDone[p]
  /\ ctxDone' = [ctxDone EXCEPT ![p] = TRUE]
  /\ UNCHANGED gcVars
  /\ UNCHANGED <<hVars, env, call, pc, line, key, victims, relT, cont>>

\* select: case <-ctx.Done(): return ctx.Err()
WaitCtxDone(p) ==
  /\ pc[p] = "war_select"
  /\ ctxDone[p]
  /\ Goto(p, WaitErrPc(p))
  /\ UNCHANGED gcVars
  /\ UNCHANGED <<hVars, env, call, line, ctxDone, key, victims, relT, cont>>

\* select: case <-ticker.C
WaitTick(p) ==
  /\ pc[p] = "war_select"
  /\ Goto(p, "war_scan")
  /\ UNCHANGED gcVars
  /\ UNCHANGED <<hVars, env, call, line, ctxDone, key, victims, relT, cont>>

\* allZero, computed under g.mu
AllZero == \A k \in DOMAIN loaded : loaded[k].refs = 0

\* g.mu.Lock(); the scan; g.mu.Unlock(); if allZero { return nil }
WaitScan(p) ==
  /\ pc[p] = "war_scan"
  /\ Goto(p, IF AllZero THEN WaitNilPc(p) ELSE "war_select")
  /\ UNCHANGED gcVars
  /\ UNCHANGED <<hVars, env, call, line, ctxDone, key, victims, relT, cont>>

\* ------------------------------------------------------------------------
\* GC.RemoveAll
\* ------------------------------------------------------------------------
\* a call of gc.RemoveAll(ctx)
RemoveAllCall ==
  /\ pc[Remover] = "idle"
  /\ Goto(Remover, "ra_catlock")
  /\ UNCHANGED gcVars
  /\ UNCHANGED <<hVars, env, call, line, ctxDone, key, victims, relT, cont>>

\* catalogMu.Lock(); defer catalogMu.Unlock(); g.WaitAllReleased(ctx)
RaCatLock ==
  /\ pc[Remover] = "ra_catlock"
  /\ catalogMu = None
  /\ catalogMu' = Remover
  /\ Goto(Remover, "war_select")
  /\ UNCHANGED <<loaded, tle, sgp4, rwW, rwReaders, gate, native, errMu, now>>
  /\ UNCHANGED <<hVars, env, call, line, ctxDone, key, victims, relT, cont>>

\* WithDllCall(ctx, Sgp4RemoveAllSats): permit, or ctx.Done() and return err
RaSgp4Enter ==
  /\ pc[Remover] = "ra_sgp4"
  /\ \/ DllEnter(Remover, "Sgp4RemoveAllSats", "ra_sgp4_in")
     \/ /\ ctxDone[Remover]
        /\ Goto(Remover, "ra_fail")
        /\ UNCHANGED <<gate, native>>
  /\ UNCHANGED <<loaded, tle, sgp4, catalogMu, rwW, rwReaders, errMu, now>>
  /\ UNCHANGED <<hVars, env, call, line, ctxDone, key, victims, relT, cont>>

RaSgp4Exit ==
  /\ pc[Remover] = "ra_sgp4_in"
  /\ DllLeave(Remover)
  /\ \/ /\ sgp4' = {}
        /\ Goto(Remover, "ra_tle")
        /\ UNCHANGED cont
     \/ /\ env.faults
        /\ Goto(Remover, "dll_err")
        /\ cont' = [cont EXCEPT ![Remover] = "ra_fail"]
        /\ UNCHANGED sgp4
  /\ UNCHANGED <<loaded, tle, catalogMu, rwW, rwReaders, errMu, now>>
  /\ UNCHANGED <<hVars, env, call, line, ctxDone, key, victims, relT>>

\* WithDllCall(ctx, TleRemoveAllSats): permit, or ctx.Done() and return err
RaTleEnter ==
  /\ pc[Remover] = "ra_tle"
  /\ \/ DllEnter(Remover, "TleRemoveAllSats", "ra_tle_in")
     \/ /\ ctxDone[Remover]
        /\ Goto(Remover, "ra_fail")
        /\ UNCHANGED <<gate, native>>
  /\ UNCHANGED <<loaded, tle, sgp4, catalogMu, rwW, rwReaders, errMu, now>>
  /\ UNCHANGED <<hVars, env, call, line, ctxDone, key, victims, relT, cont>>

RaTleExit ==
  /\ pc[Remover] = "ra_tle_in"
  /\ DllLeave(Remover)
  /\ \/ /\ tle' = {}
        /\ Goto(Remover, "ra_clear")
        /\ UNCHANGED cont
     \/ /\ env.faults
        /\ Goto(Remover, "dll_err")
        /\ cont' = [cont EXCEPT ![Remover] = "ra_fail"]
        /\ UNCHANGED tle
  /\ UNCHANGED <<loaded, sgp4, catalogMu, rwW, rwReaders, errMu, now>>
  /\ UNCHANGED <<hVars, env, call, line, ctxDone, key, victims, relT>>

\* g.loaded = make(...); return nil, with the deferred catalogMu.Unlock()
RaClear ==
  /\ pc[Remover] = "ra_clear"
  /\ loaded' = <<>>
  /\ catalogMu' = None
  /\ Goto(Remover, "ra_ok")
  /\ UNCHANGED <<tle, sgp4, rwW, rwReaders, gate, native, errMu, now>>
  /\ UNCHANGED <<hVars, env, call, line, ctxDone, key, victims, relT, cont>>

\* return err, with the deferred catalogMu.Unlock()
RaFail ==
  /\ pc[Remover] = "ra_fail"
  /\ catalogMu' = None
  /\ Goto(Remover, "ra_err")
  /\ UNCHANGED <<loaded, tle, sgp4, rwW, rwReaders, gate, native, errMu, now>>
  /\ UNCHANGED <<hVars, env, call, line, ctxDone, key, victims, relT, cont>>

\* the caller takes the result
RemoveAllReturn ==
  /\ pc[Remover] \in {"ra_ok", "ra_err"}
  /\ Goto(Remover, "idle")
  /\ ctxDone' = [ctxDone EXCEPT ![Remover] = FALSE]
  /\ cont' = [cont EXCEPT ![Remover] = None]
  /\ UNCHANGED gcVars
  /\ UNCHANGED <<hVars, env, call, line, key, victims, relT>>

\* ------------------------------------------------------------------------
\* Environment: the clock and the direct callers of the registry
\* ------------------------------------------------------------------------
Tick ==
  /\ now < MaxTime
  /\ now' = now + 1
  /\ UNCHANGED <<loaded, tle, sgp4, catalogMu, rwW, rwReaders, gate, native, errMu>>
  /\ UNCHANGED <<procVars, hVars>>

\* a caller invokes gc.Acquire(ctx, l1, l2)
ClientAcquire(c) ==
  /\ pc[c] = "idle"
  /\ \E l \in Lines, d \in (IF env.cancel THEN BOOLEAN ELSE {FALSE}) :
       /\ line' = [line EXCEPT ![c] = l]
       /\ ctxDone' = [ctxDone EXCEPT ![c] = d]
  /\ Goto(c, "acq")
  /\ UNCHANGED gcVars
  /\ UNCHANGED <<hVars, env, call, key, victims, relT, cont>>

\* a caller invokes the release closure Acquire returned
ClientRelease(c) ==
  /\ pc[c] = "held"
  /\ Goto(c, "rel")
  /\ UNCHANGED gcVars
  /\ UNCHANGED <<hVars, env, call, line, ctxDone, key, victims, relT, cont>>

\* ------------------------------------------------------------------------
\* Requests
\* ------------------------------------------------------------------------
\* EphemRequest.ReqId / PropRequest.ReqId of the request handled by r
ReqIdOf(r) == IF r = "r1" THEN 7 ELSE 8

\* EphemTask.TaskId of the task at position i (0-based)
TaskIdOf(i) == 100 + i

\* the step policies of a task's time grid: a known DS50 step, or a known
\* period that is no ISO-8601 duration
StepKinds == {"ds50", "bad"}

TaskChoices == [line : Lines, step : StepKinds]

NoChunk ==
  [reqId |-> 0, streamId |-> -1, streamChunkId |-> -1, taskId |-> 0,
   points |-> <<>>, count |-> 0]

NoPend == [resp |-> NoChunk, done |-> FALSE, next |-> 0]

NoPropResp == [reqId |-> 0, result |-> 0]

HIdle ==
  [kind |-> None, reqId |-> 0, tasks |-> <<>>, chunkID |-> 0, timeStart |-> 0,
   pend |-> NoPend, terr |-> None, consult |-> FALSE,
   resultsCh |-> <<>>, chClosed |-> FALSE, errCh |-> None,
   spc |-> "off", scur |-> NoChunk, sink |-> <<>>,
   ret |-> None, cancelAt |-> -1, res |-> 0, propResp |-> NoPropResp]

\* ------------------------------------------------------------------------
\* dllcore.Sgp4GenEphems and the conversion of its flat output
\* ------------------------------------------------------------------------
\* the native generator: the points of satellite k at start, start + step, ...
\* up to end, at most arrSize of them, each as 7 doubles (t, x, ..., vz)
RECURSIVE NativeGenEphems(_, _, _, _, _)
NativeGenEphems(k, start, end, step, arrSize) ==
  IF arrSize = 0 \/ start > end THEN <<>>
  ELSE <<start, k, 0, 0, 0, 0, 0>>
         \o NativeGenEphems(k, start + step, end, step, arrSize - 1)

\* float64 times: below BigTime the doubles are spaced no wider than eps,
\* from BigTime on they are spaced BigUlp apart (eps is far below half the
\* spacing of the doubles at a DS50 date of today)
BigTime == 8

BigUlp == 4

Ulp(t) == IF t < BigTime THEN 1 ELSE BigUlp

\* the float64 sum t + d, rounded to the nearest double at the size of t
FloatAdd(t, d) ==
  LET u == Ulp(t)
      r == (t + d) % u
  IN  IF 2 * r < u THEN t + d - r ELSE t + d - r + u

\* cs := unsafe.Slice(buf, n*7); n, nextStart and done of Sgp4GenEphems
Sgp4GenEphems(k, startTime, endTime, timeStep, chunkSize) ==
  LET buf  == NativeGenEphems(k, startTime, endTime, timeStep, chunkSize)
      n    == Len(buf) \div 7
      flat == SubSeq(buf, 1, n * 7)
  IN  IF n = 0
      THEN [flat |-> flat, n |-> 0, next |-> startTime, done |-> TRUE]
      ELSE LET lastT == flat[(n - 1) * 7 + 1]
               nextStart == FloatAdd(lastT, Eps)
           IN  [flat |-> flat, n |-> n, next |-> nextStart,
                done |-> (n < chunkSize \/ nextStart >= endTime)]

\* flatEphemsToEphemDataArr
FlatOk(flat) == Len(flat) >= 7 /\ Len(flat) % 7 = 0

\* a conversion that loses the last point of the flat array
flatEphemsToEphemDataArr_DropLast(flat) ==
  [i \in 1 .. ((Len(flat) \div 7) - 1) |->
     [Ds50Time |-> flat[(i - 1) * 7 + 1], X |-> flat[(i - 1) * 7 + 2],
      Y |-> flat[(i - 1) * 7 + 3], Z |-> flat[(i - 1) * 7 + 4],
      Vx |-> flat[(i - 1) * 7 + 5], Vy |-> flat[(i - 1) * 7 + 6],
      Vz |-> flat[(i - 1) * 7 + 7]]]

flatEphemsToEphemDataArr(flat) ==
  [i \in 1 .. (Len(flat) \div 7) |->
     [Ds50Time |-> flat[(i - 1) * 7 + 1], X |-> flat[(i - 1) * 7 + 2],
      Y |-> flat[(i - 1) * 7 + 3], Z |-> flat[(i - 1) * 7 + 4],
      Vx |-> flat[(i - 1) * 7 + 5], Vy |-> flat[(i - 1) * 7 + 6],
      Vz |-> flat[(i - 1) * 7 + 7]]]

\* a response whose StreamId and StreamChunkId are exchanged
buildEphemResponse_SwappedIds(reqId, taskId, taskIdx, flat, count, chunkID) ==
  [reqId |-> reqId, streamId |-> chunkID, streamChunkId |-> taskIdx,
   taskId |-> taskId, points |-> flatEphemsToEphemDataArr(flat),
   count |-> count]

\* a response that leaves ReqId unset
buildEphemResponse_NoReqId(reqId, taskId, taskIdx, flat, count, chunkID) ==
  [reqId |-> 0, streamId |-> taskIdx, streamChunkId |-> chunkID,
   taskId |-> taskId, points |-> flatEphemsToEphemDataArr(flat),
   count |-> count]

\* buildEphemResponse
buildEphemResponse(reqId, taskId, taskIdx, flat, count, chunkID) ==
  [reqId |-> reqId, streamId |-> taskIdx, streamChunkId |-> chunkID,
   taskId |-> taskId, points |-> flatEphemsToEphemDataArr(flat),
   count |-> count]

\* a chunk loop that forgets chunkID++
NextChunkID_Stuck(c) == c

\* chunkID++ after the chunk has been queued
NextChunkID(c) == c + 1

\* getKnownTimeStep: the step in minutes, or a panic
StepPanics(kind) == kind = "bad"

\* ------------------------------------------------------------------------
\* PropagationService.Ephem
\* ------------------------------------------------------------------------
HSet(r, rec) == h' = [h EXCEPT ![r] = rec]

\* validateAnalytEphemRequest fails: return status.Error(InvalidArgument)
EphemInvalid(r) ==
  /\ pc[r] = "idle"
  /\ HSet(r, [HIdle EXCEPT !.kind = "Ephem", !.reqId = ReqIdOf(r),
                           !.ret = "InvalidArgument"])
  /\ Goto(r, "ret")
  /\ UNCHANGED gcVars
  /\ UNCHANGED <<globMu, globErrMu, env, call, line, ctxDone, key, victims, relT, cont>>

\* globMu.Lock(); startResultSender
EphemBegin(r) ==
  /\ pc[r] = "idle"
  /\ globMu = None
  /\ globMu' = r
  /\ HSet(r, [HIdle EXCEPT !.kind = "Ephem", !.reqId = ReqIdOf(r),
                           !.spc = "recv"])
  /\ Goto(r, "e_task")
  /\ UNCHANGED gcVars
  /\ UNCHANGED <<globErrMu, env, call, line, ctxDone, key, victims, relT, cont>>

\* for taskIdx, task := range req.GetTasks(): the next task, preceded by the
\* check of ctx.Done()
EphemNextTask(r) ==
  /\ pc[r] = "e_task"
  /\ Len(h[r].tasks) < MaxTasks
  /\ IF ctxDone[r]
     THEN /\ HSet(r, [h[r] EXCEPT !.chClosed = TRUE, !.terr = "Canceled",
                                  !.consult = FALSE])
          /\ Goto(r, "e_drain")
          /\ UNCHANGED line
     ELSE \E t \in TaskChoices :
            /\ HSet(r, [h[r] EXCEPT !.tasks = Append(@, t)])
            /\ line' = [line EXCEPT ![r] = t.line]
            /\ Goto(r, "acq")
  /\ UNCHANGED gcVars
  /\ UNCHANGED <<globMu, globErrMu, env, call, ctxDone, key, victims, relT, cont>>

\* the loop over the tasks ends: close(resultsCh)
EphemTasksDone(r) ==
  /\ pc[r] = "e_task"
  /\ Len(h[r].tasks) >= 1
  /\ HSet(r, [h[r] EXCEPT !.chClosed = TRUE, !.terr = None, !.consult = TRUE])
  /\ Goto(r, "e_drain")
  /\ UNCHANGED gcVars
  /\ UNCHANGED <<globMu, globErrMu, env, call, line, ctxDone, key, victims, relT, cont>>

\* Acquire failed: close(resultsCh); return status.Errorf(codes.Internal)
EphemAcqFail(r) ==
  /\ pc[r] = "e_acqfail"
  /\ HSet(r, [h[r] EXCEPT !.chClosed = TRUE, !.terr = "Internal",
                          !.consult = FALSE])
  /\ Goto(r, "e_drain")
  /\ UNCHANGED gcVars
  /\ UNCHANGED <<globMu, globErrMu, env, call, line, ctxDone, key, victims, relT, cont>>

\* runAnalytGenEphems up to the chunk loop: the step of the grid; a period
\* that does not parse panics: the deferred globMu.Unlock() runs and, no
\* interceptor recovering, the process ends with all its goroutines
EphemRun(r) ==
  /\ pc[r] = "e_run"
  /\ IF StepPanics(h[r].tasks[Len(h[r].tasks)].step)
     THEN /\ pc' = [p \in Procs |-> IF p = r THEN "panicked" ELSE "dead"]
          /\ globMu' = None
          /\ h' = [q \in Reqs |->
                     [h[q] EXCEPT !.spc = "dead",
                                  !.ret = IF q = r THEN "panic" ELSE @]]
     ELSE /\ Goto(r, "e_gen")
          /\ HSet(r, [h[r] EXCEPT !.chunkID = 0, !.timeStart = GridStart])
          /\ UNCHANGED globMu
  /\ UNCHANGED gcVars
  /\ UNCHANGED <<globErrMu, env, call, line, ctxDone, key, victims, relT, cont>>

\* dllcore.Sgp4GenEphems(...) is entered, without the gate
GenEnter(r) ==
  /\ pc[r] = "e_gen"
  /\ native' = [native EXCEPT ![r] = "Sgp4GenEphems"]
  /\ Goto(r, "e_gen_in")
  /\ UNCHANGED <<loaded, tle, sgp4, catalogMu, rwW, rwReaders, gate, errMu, now>>
  /\ UNCHANGED <<hVars, env, call, line, ctxDone, key, victims, relT, cont>>

\* dllcore.Sgp4GenEphems(...) returns points: build the response
GenExit(r) ==
  /\ pc[r] = "e_gen_in"
  /\ key[r] \in sgp4
  /\ native' = [native EXCEPT ![r] = None]
  /\ LET g == Sgp4GenEphems(key[r], h[r].timeStart, GridEnd, StepLen, StreamChunkSize)
         i == Len(h[r].tasks) - 1
     IN  IF g.n > 0
         THEN IF FlatOk(g.flat)
              THEN /\ HSet(r, [h[r] EXCEPT !.pend =
                        [resp |-> buildEphemResponse(h[r].reqId, TaskIdOf(i), i,
                                                     g.flat, g.n, h[r].chunkID),
                         done |-> g.done, next |-> g.next]])
                   /\ Goto(r, "e_send")
              ELSE /\ HSet(r, [h[r] EXCEPT !.terr = "flat"])
                   /\ Goto(r, "rel")
         ELSE /\ HSet(r, [h[r] EXCEPT !.terr = None])
              /\ Goto(r, "rel")
  /\ UNCHANGED <<loaded, tle, sgp4, catalogMu, rwW, rwReaders, gate, errMu, now>>
  /\ UNCHANGED <<globMu, globErrMu, env, call, line, ctxDone, key, victims, relT, cont>>

\* select { case resultsCh <- ephemResp: chunkID++; case <-ctx.Done(): return }
\* then: if done { break }; timeStart = next
EphemSend(r) ==
  /\ pc[r] = "e_send"
  /\ \/ /\ Len(h[r].resultsCh) < StreamChunkSize
        /\ HSet(r, [h[r] EXCEPT !.resultsCh = Append(@, h[r].pend.resp),
                                !.chunkID = NextChunkID(@),
                                !.timeStart = h[r].pend.next,
                                !.pend = NoPend,
                                !.terr = None])
        /\ Goto(r, IF h[r].pend.done THEN "rel" ELSE "e_gen")
     \/ /\ ctxDone[r]
        /\ HSet(r, [h[r] EXCEPT !.pend = NoPend, !.terr = "Canceled"])
        /\ Goto(r, "rel")
  /\ UNCHANGED gcVars
  /\ UNCHANGED <<globMu, globErrMu, env, call, line, ctxDone, key, victims, relT, cont>>

\* after release(): if err != nil { close(resultsCh); ... } else the next task
EphemAfter(r) ==
  /\ pc[r] = "e_after"
  /\ IF h[r].terr # None
     THEN /\ HSet(r, [h[r] EXCEPT !.chClosed = TRUE, !.consult = TRUE])
          /\ Goto(r, "e_drain")
     ELSE /\ Goto(r, "e_task")
          /\ UNCHANGED h
  /\ UNCHANGED gcVars
  /\ UNCHANGED <<globMu, globErrMu, env, call, line, ctxDone, key, victims, relT, cont>>

\* a return of Ephem that does not wait for senderDoneCh
EphemDrained_NoWait(r) ==
  /\ pc[r] = "e_drain"
  /\ HSet(r, [h[r] EXCEPT !.ret =
        IF h[r].consult /\ h[r].errCh # None THEN h[r].errCh
        ELSE IF h[r].terr = None THEN "OK" ELSE h[r].terr])
  /\ Goto(r, "ret")
  /\ UNCHANGED gcVars
  /\ UNCHANGED <<globMu, globErrMu, env, call, line, ctxDone, key, victims, relT, cont>>

\* <-senderDoneCh; the latched send error, where the path consults errCh
EphemDrained(r) ==
  /\ pc[r] = "e_drain"
  /\ h[r].spc = "done"
  /\ HSet(r, [h[r] EXCEPT !.ret =
        IF h[r].consult /\ h[r].errCh # None THEN h[r].errCh
        ELSE IF h[r].terr = None THEN "OK" ELSE h[r].terr])
  /\ Goto(r, "ret")
  /\ UNCHANGED gcVars
  /\ UNCHANGED <<globMu, globErrMu, env, call, line, ctxDone, key, victims, relT, cont>>

\* ------------------------------------------------------------------------
\* PropagationService.startResultSender: the sender goroutine
\* ------------------------------------------------------------------------
\* for res := range resultsCh
SenderRecv(r) ==
  /\ h[r].spc = "recv"
  /\ h[r].resultsCh # <<>>
  /\ HSet(r, [h[r] EXCEPT !.scur = Head(h[r].resultsCh),
                          !.resultsCh = Tail(@), !.spc = "send"])
  /\ UNCHANGED gcVars
  /\ UNCHANGED <<globMu, globErrMu, procVars>>

\* srv.Send(res) succeeds
SenderSend(r) ==
  /\ h[r].spc = "send"
  /\ HSet(r, [h[r] EXCEPT !.sink = Append(@, h[r].scur), !.scur = NoChunk,
                          !.spc = "recv"])
  /\ UNCHANGED gcVars
  /\ UNCHANGED <<globMu, globErrMu, procVars>>

\* srv.Send(res) fails: errCh <- err; return
SenderSendFail(r) ==
  /\ h[r].spc = "send"
  /\ env.sendFail
  /\ HSet(r, [h[r] EXCEPT !.errCh = "SendError", !.scur = NoChunk,
                          !.spc = "done"])
  /\ UNCHANGED gcVars
  /\ UNCHANGED <<globMu, globErrMu, procVars>>

\* resultsCh is closed and drained: close(doneCh)
SenderClosed(r) ==
  /\ h[r].spc = "recv"
  /\ h[r].resultsCh = <<>>
  /\ h[r].chClosed
  /\ HSet(r, [h[r] EXCEPT !.spc = "done"])
  /\ UNCHANGED gcVars
  /\ UNCHANGED <<globMu, globErrMu, procVars>>

\* ------------------------------------------------------------------------
\* PropagationService.Prop
\* ------------------------------------------------------------------------
\* globMu.Lock(); validatePropRequest fails
PropInvalid(r) ==
  /\ pc[r] = "idle"
  /\ globMu = None
  /\ globMu' = r
  /\ HSet(r, [HIdle EXCEPT !.kind = "Prop", !.reqId = ReqIdOf(r),
                           !.ret = "InvalidArgument"])
  /\ Goto(r, "ret")
  /\ UNCHANGED gcVars
  /\ UNCHANGED <<globErrMu, env, call, line, ctxDone, key, victims, relT, cont>>

\* a Prop that does not wait for globMu
PropBegin_NoGlobMu(r) ==
  /\ pc[r] = "idle"
  /\ globMu' = r
  /\ \E l \in Lines :
       /\ HSet(r, [HIdle EXCEPT !.kind = "Prop", !.reqId = ReqIdOf(r),
                                !.tasks = <<[line |-> l, step |-> "ds50"]>>])
       /\ line' = [line EXCEPT ![r] = l]
  /\ Goto(r, "acq")
  /\ UNCHANGED gcVars
  /\ UNCHANGED <<globErrMu, env, call, ctxDone, key, victims, relT, cont>>

\* globMu.Lock(); validatePropRequest passes; gc.Acquire(ctx, ...)
PropBegin(r) ==
  /\ pc[r] = "idle"
  /\ globMu = None
  /\ globMu' = r
  /\ \E l \in Lines :
       /\ HSet(r, [HIdle EXCEPT !.kind = "Prop", !.reqId = ReqIdOf(r),
                                !.tasks = <<[line |-> l, step |-> "ds50"]>>])
       /\ line' = [line EXCEPT ![r] = l]
  /\ Goto(r, "acq")
  /\ UNCHANGED gcVars
  /\ UNCHANGED <<globErrMu, env, call, ctxDone, key, victims, relT, cont>>

\* if err != nil { return nil, err }
PropAcqFail(r) ==
  /\ pc[r] = "p_acqfail"
  /\ HSet(r, [h[r] EXCEPT !.ret = "AcquireError"])
  /\ Goto(r, "ret")
  /\ UNCHANGED gcVars
  /\ UNCHANGED <<globMu, globErrMu, env, call, line, ctxDone, key, victims, relT, cont>>

\* WithDllCall(ctx, Sgp4PropAll): permit, or ctx.Done()
PropAllEnter(r) ==
  /\ pc[r] = "p_prop"
  /\ \/ /\ DllEnter(r, "Sgp4PropAll", "p_prop_in")
        /\ UNCHANGED h
     \/ /\ ctxDone[r]
        /\ HSet(r, [h[r] EXCEPT !.terr = "Canceled"])
        /\ Goto(r, "rel")
        /\ UNCHANGED <<gate, native>>
  /\ UNCHANGED <<loaded, tle, sgp4, catalogMu, rwW, rwReaders, errMu, now>>
  /\ UNCHANGED <<globMu, globErrMu, env, call, line, ctxDone, key, victims, relT, cont>>

\* Sgp4PropAll returns rc 0 and the 8 doubles
PropAllExit(r) ==
  /\ pc[r] = "p_prop_in"
  /\ key[r] \in sgp4
  /\ DllLeave(r)
  /\ HSet(r, [h[r] EXCEPT !.terr = None, !.res = key[r]])
  /\ Goto(r, "rel")
  /\ UNCHANGED <<loaded, tle, sgp4, catalogMu, rwW, rwReaders, errMu, now>>
  /\ UNCHANGED <<globMu, globErrMu, env, call, line, ctxDone, key, victims, relT, cont>>

\* resp := &apiv1.PropResponse{ReqId: req.GetReqId(), Result: res}
PropResponse(reqId, res) == [reqId |-> reqId, result |-> res]

\* the deferred release() has run: return resp, nil or return nil, err
PropAfter(r) ==
  /\ pc[r] = "p_after"
  /\ HSet(r, [h[r] EXCEPT
        !.ret = IF h[r].terr = None THEN "OK" ELSE h[r].terr,
        !.propResp = IF h[r].terr = None
                     THEN PropResponse(h[r].reqId, h[r].res)
                     ELSE NoPropResp,
        !.res = 0])
  /\ Goto(r, "ret")
  /\ UNCHANGED gcVars
  /\ UNCHANGED <<globMu, globErrMu, env, call, line, ctxDone, key, victims, relT, cont>>

\* ------------------------------------------------------------------------
\* Native failures seen by the handlers
\* ------------------------------------------------------------------------
\* Sgp4GenEphems: buf == nil, errCode -10
GenAllocFail(r) ==
  /\ pc[r] = "e_gen_in"
  /\ env.faults
  /\ native' = [native EXCEPT ![r] = None]
  /\ HSet(r, [h[r] EXCEPT !.terr = "Internal"])
  /\ Goto(r, "rel")
  /\ UNCHANGED <<loaded, tle, sgp4, catalogMu, rwW, rwReaders, gate, errMu, now>>
  /\ UNCHANGED <<globMu, globErrMu, env, call, line, ctxDone, key, victims, relT, cont>>

\* Sgp4GenEphems: rc != 0 and n == 0 (an injected failure only while fewer
\* than MaxChunks chunks of the task have been queued)
GenNativeErr(r) ==
  /\ pc[r] = "e_gen_in"
  /\ (env.faults /\ h[r].chunkID < MaxChunks) \/ key[r] \notin sgp4
  /\ native' = [native EXCEPT ![r] = None]
  /\ Goto(r, "e_lasterr")
  /\ UNCHANGED <<loaded, tle, sgp4, catalogMu, rwW, rwReaders, gate, errMu, now>>
  /\ UNCHANGED <<hVars, env, call, line, ctxDone, key, victims, relT, cont>>

\* getDllLastError: globErrMu.Lock(); dllcore.GetLastErrMsg()
LastErrEnter(r) ==
  /\ pc[r] = "e_lasterr"
  /\ globErrMu = None
  /\ globErrMu' = r
  /\ native' = [native EXCEPT ![r] = "GetLastErrMsg"]
  /\ Goto(r, "e_lasterr_in")
  /\ UNCHANGED <<loaded, tle, sgp4, catalogMu, rwW, rwReaders, gate, errMu, now>>
  /\ UNCHANGED <<globMu, h, env, call, line, ctxDone, key, victims, relT, cont>>

\* if msg != "" { return error }; otherwise the loop goes on with n == 0,
\* done == false and timeStart = next = 0
LastErrExit(r) ==
  /\ pc[r] = "e_lasterr_in"
  /\ globErrMu' = None
  /\ native' = [native EXCEPT ![r] = None]
  /\ \/ /\ HSet(r, [h[r] EXCEPT !.terr = "Internal"])
        /\ Goto(r, "rel")
     \/ /\ HSet(r, [h[r] EXCEPT !.timeStart = 0])
        /\ Goto(r, "e_gen")
  /\ UNCHANGED <<loaded, tle, sgp4, catalogMu, rwW, rwReaders, gate, errMu, now>>
  /\ UNCHANGED <<globMu, env, call, line, ctxDone, key, victims, relT, cont>>

\* Sgp4PropAll returns rc != 0
PropAllFail(r) ==
  /\ pc[r] = "p_prop_in"
  /\ env.faults \/ key[r] \notin sgp4
  /\ DllLeave(r)
  /\ Goto(r, "dll_err")
  /\ cont' = [cont EXCEPT ![r] = "p_propfail"]
  /\ UNCHANGED <<loaded, tle, sgp4, catalogMu, rwW, rwReaders, errMu, now>>
  /\ UNCHANGED <<hVars, env, call, line, ctxDone, key, victims, relT>>

\* if err != nil { return nil, err }, through the deferred release()
PropFailed(r) ==
  /\ pc[r] = "p_propfail"
  /\ HSet(r, [h[r] EXCEPT !.terr = "NativeError"])
  /\ Goto(r, "rel")
  /\ UNCHANGED gcVars
  /\ UNCHANGED <<globMu, globErrMu, env, call, line, ctxDone, key, victims, relT, cont>>

\* ------------------------------------------------------------------------
\* The transport: a handler returns, a client cancels
\* ------------------------------------------------------------------------
\* the handler returns to the transport; the deferred globMu.Unlock() runs
ReqReturn(r) ==
  /\ pc[r] = "ret"
  /\ globMu' = IF globMu = r THEN None ELSE globMu
  /\ HSet(r, HIdle)
  /\ Goto(r, "idle")
  /\ line' = [line EXCEPT ![r] = BadLine]
  /\ ctxDone' = [ctxDone EXCEPT ![r] = FALSE]
  /\ UNCHANGED gcVars
  /\ UNCHANGED <<globErrMu, env, call, key, victims, relT, cont>>

\* the client cancels the request's context
Cancel(r) ==
  /\ env.cancel
  /\ pc[r] \notin {"idle", "ret", "panicked", "dead"}
  /\ ~ctxDone[r]
  /\ ctxDone' = [ctxDone EXCEPT ![r] = TRUE]
  /\ HSet(r, [h[r] EXCEPT !.cancelAt = Len(h[r].sink)])
  /\ UNCHANGED gcVars
  /\ UNCHANGED <<globMu, globErrMu, env, call, pc, line, key, victims, relT, cont>>

\* ------------------------------------------------------------------------
\* PropagationService.Info
\* ------------------------------------------------------------------------
InfoAstro ==
  /\ pc[InfoProc] = "idle"
  /\ native' = [native EXCEPT ![InfoProc] = "DllMainGetInfo"]
  /\ Goto(InfoProc, "info_astro")
  /\ UNCHANGED <<loaded, tle, sgp4, catalogMu, rwW, rwReaders, gate, errMu, now>>
  /\ UNCHANGED <<hVars, env, call, line, ctxDone, key, victims, relT, cont>>

InfoSgp4 ==
  /\ pc[InfoProc] = "info_astro"
  /\ native' = [native EXCEPT ![InfoProc] = "Sgp4GetInfo"]
  /\ Goto(InfoProc, "info_sgp4")
  /\ UNCHANGED <<loaded, tle, sgp4, catalogMu, rwW, rwReaders, gate, errMu, now>>
  /\ UNCHANGED <<hVars, env, call, line, ctxDone, key, victims, relT, cont>>

InfoReturn ==
  /\ pc[InfoProc] = "info_sgp4"
  /\ native' = [native EXCEPT ![InfoProc] = None]
  /\ Goto(InfoProc, "idle")
  /\ UNCHANGED <<loaded, tle, sgp4, catalogMu, rwW, rwReaders, gate, errMu, now>>
  /\ UNCHANGED <<hVars, env, call, line, ctxDone, key, victims, relT, cont>>

\* no direct call of a function is in progress; res is <<>> until the
\* function has returned and then holds the value returned
NoCall == [fn |-> None, arg |-> <<>>, res |-> <<>>]

\* ------------------------------------------------------------------------
\* Specification of the registry under direct concurrent callers
\* ------------------------------------------------------------------------
InitBase ==
  /\ loaded = <<>>
  /\ tle = {}
  /\ sgp4 = {}
  /\ catalogMu = None
  /\ rwW = [k \in Keys |-> None]
  /\ rwReaders = [k \in Keys |-> 0]
  /\ gate = {}
  /\ native = [p \in Procs |-> None]
  /\ errMu = None
  /\ now = 0
  /\ pc = [p \in Procs |-> IF p = Sweeper THEN "sw_idle" ELSE "idle"]
  /\ line = [p \in Procs |-> BadLine]
  /\ ctxDone = [p \in Procs |-> FALSE]
  /\ key = [p \in Procs |-> 0]
  /\ victims = [p \in Procs |-> <<>>]
  /\ relT = [p \in Procs |-> 0]
  /\ cont = [p \in Procs |-> None]
  /\ globMu = None
  /\ globErrMu = None
  /\ h = [r \in Reqs |-> HIdle]
  /\ call = NoCall

\* the registry under reliable native calls and live contexts
InitGC ==
  /\ InitBase
  /\ env = [faults |-> FALSE, cancel |-> FALSE, sendFail |-> FALSE]

\* WithDllCall after a native call that returned rc != 0
NativeErrStep(p) ==
  \/ ErrReadEnter(p)
  \/ ErrReadExit(p)

\* the error returns of addOrInitSat
AddFailStep(p) ==
  \/ AddAddFail(p)
  \/ AddInitFail(p)

RemoveVictimsStep(p) ==
  \/ RmLock(p)
  \/ RmLockWait(p)
  \/ RmCatLock(p)
  \/ RmCheck(p)
  \/ RmSgp4Enter(p)
  \/ RmSgp4Exit(p)
  \/ RmTleEnter(p)
  \/ RmTleExit(p)
  \/ RmDelete(p)

AcquireStep(p) ==
  \/ AcqParse(p)
  \/ AcqCatLock(p)
  \/ AcqGetKeyEnter(p)
  \/ AcqGetKeyExit(p)
  \/ AcqEvict(p)
  \/ AddCatLock(p)
  \/ AddGetKeyEnter(p)
  \/ AddGetKeyExit(p)
  \/ AddAddEnter(p)
  \/ AddAddExit(p)
  \/ AddRwLock(p)
  \/ AddRwLockWait(p)
  \/ AddInitEnter(p)
  \/ AddInitExit(p)
  \/ MissRLock(p)
  \/ MissInsert(p)
  \/ HitRLock(p)
  \/ HitInsert(p)
  \/ AcqReturnErr(p)

ReleaseStep(p) ==
  \/ RelNow(p)
  \/ RelDec(p)
  \/ RelRUnlock(p)

NextGC ==
  \/ Tick
  \/ SweepScan
  \/ \E p \in Clients \cup {Sweeper} : RemoveVictimsStep(p)
  \/ \E c \in Clients : ClientAcquire(c)
  \/ \E c \in Clients : AcquireStep(c)
  \/ \E c \in Clients : ClientRelease(c)
  \/ \E c \in Clients : ReleaseStep(c)

SpecGC == InitGC /\ [][NextGC]_vars

\* a direct caller holds a reference on k from the return of Acquire until
\* its release closure has lowered refs
HoldsRef(c, k) == key[c] = k /\ pc[c] \in {"held", "rel", "rel_dec"}

\* C1: under every interleaving of Acquire, release, LRU eviction and TTL
\* sweeps, no step removes from the registry or from the native catalog
\* (TLE or SGP4) a key whose entry has refs > 0, and a step that removes a
\* key happens only in a state where no caller holds that key.
C1_InUseNeverRemoved ==
  [][\A k \in Keys :
       /\ (k \in DOMAIN loaded /\ loaded[k].refs > 0) =>
             /\ k \in DOMAIN loaded'
             /\ (k \in tle => k \in tle')
             /\ (k \in sgp4 => k \in sgp4')
       /\ (\/ (k \in DOMAIN loaded /\ k \notin DOMAIN loaded')
           \/ (k \in tle /\ k \notin tle')
           \/ (k \in sgp4 /\ k \notin sgp4')) =>
             \A c \in Clients : ~HoldsRef(c, k)]_vars

\* C1 witness: a remover chose k as a victim while it was idle, k has been
\* acquired since (refs > 0), and the remover is waiting for the write lock
C1_Witness ==
  \E p \in Clients \cup {Sweeper}, k \in Keys :
    /\ pc[p] = "rm_lockwait"
    /\ Head(victims[p]) = k
    /\ k \in DOMAIN loaded
    /\ loaded[k].refs > 0
    /\ \E c \in Clients : HoldsRef(c, k)

\* C2: for every sequence of Acquire and release events, refs is never
\* negative and counts the references held, the release of a held
\* reference lowers refs by exactly one, and refs is 0 for every entry
\* once every successful Acquire has been released.
C2_RefCount ==
  /\ [](\A k \in DOMAIN loaded :
          /\ loaded[k].refs >= 0
          /\ loaded[k].refs = Cardinality({c \in Clients : HoldsRef(c, k)}))
  /\ []((\A c \in Clients : pc[c] = "idle") =>
          \A k \in DOMAIN loaded : loaded[k].refs = 0)
  /\ [][\A c \in Clients :
          (pc[c] = "rel_dec" /\ pc'[c] = "rel_runlock") =>
            /\ key[c] \in DOMAIN loaded
            /\ key[c] \in DOMAIN loaded'
            /\ loaded'[key[c]].refs = loaded[key[c]].refs - 1]_vars

\* C2 witness: two callers held the same key and one of them has just
\* released it, leaving refs = 1
C2_Witness ==
  \E c, d \in Clients :
    /\ c # d
    /\ pc[c] = "rel_runlock"
    /\ HoldsRef(d, key[c])
    /\ loaded[key[c]].refs = 1

\* no Acquire and no removal is in progress among the direct callers and
\* the sweeper
QuiescentGC ==
  /\ \A c \in Clients : pc[c] \in {"idle", "held"}
  /\ pc[Sweeper] = "sw_idle"

\* C5: in every quiescent state a key is in the registry if and only if the
\* satellite is loaded in the native catalog (TLE and SGP4 layers).
C5_RegistryMatchesNative ==
  QuiescentGC =>
    \A k \in Keys : (k \in DOMAIN loaded) <=> (k \in tle /\ k \in sgp4)

\* C12: in every registry state, the number of entries is at most maxLoaded
\* whenever at least maxLoaded entries have refs = 0.
C12_SoftCeiling ==
  Cardinality({k \in DOMAIN loaded : loaded[k].refs = 0}) >= maxLoaded =>
    Cardinality(DOMAIN loaded) <= maxLoaded

\* three concurrent callers of Acquire and of the release closures; no
\* sweeper tick
NextGC3 ==
  \/ \E c \in Callers : ClientAcquire(c)
  \/ \E c \in Callers : AcquireStep(c)
  \/ \E c \in Callers : RemoveVictimsStep(c)
  \/ \E c \in Callers : ClientRelease(c)
  \/ \E c \in Callers : ReleaseStep(c)

SpecGC3 == InitGC /\ [][NextGC3]_vars

\* C14: while the registry holds maxLoaded entries, every one with
\* refs > 0, a caller inside Acquire of a satellite that has no registry
\* entry never stands at a lock that only a release closure can free: at
\* addOrInitSat's mu.Lock() no reader holds the key.
C14_AcquireNeverWaitsForRelease ==
  \A p \in Callers :
    (/\ Cardinality(DOMAIN loaded) = maxLoaded
     /\ \A k \in DOMAIN loaded : loaded[k].refs > 0
     /\ pc[p] = "add_rwlockwait"
     /\ key[p] \notin DOMAIN loaded) =>
       rwReaders[key[p]] = 0

\* a release closure invoked twice by its holder
ReleaseTwiceStep(p) ==
  \/ RelAgain(p)
  \/ Rel2Dec(p)
  \/ Rel2RUnlock(p)

\* callers that may invoke a release closure a second time
NextGCRel ==
  \/ \E c \in Clients : ClientAcquire(c)
  \/ \E c \in Clients : AcquireStep(c)
  \/ \E c \in Clients : RemoveVictimsStep(c)
  \/ \E c \in Clients : ClientRelease(c)
  \/ \E c \in Clients : ReleaseStep(c)
  \/ \E c \in Clients : ReleaseTwiceStep(c)

SpecGCRel == InitGC /\ [][NextGCRel]_vars

\* C17: the second run of a release closure changes no entry's refs and
\* releases no read lock.
C17_ReleaseSingleShot ==
  [][\A p \in Clients :
       (pc[p] \in {"rel2_dec", "rel2_runlock"} /\ pc'[p] # pc[p]) =>
         /\ DOMAIN loaded' = DOMAIN loaded
         /\ \A k \in DOMAIN loaded : loaded'[k].refs = loaded[k].refs
         /\ rwReaders' = rwReaders]_vars

\* the registry with its sweeper, concurrent callers and a call of Close
NextClose ==
  \/ Tick
  \/ SweepScan
  \/ SweepStop
  \/ Close
  \/ CloseReturn
  \/ \E p \in Clients \cup {Sweeper} : RemoveVictimsStep(p)
  \/ \E c \in Clients : ClientAcquire(c)
  \/ \E c \in Clients : AcquireStep(c)
  \/ \E c \in Clients : ClientRelease(c)
  \/ \E c \in Clients : ReleaseStep(c)

SpecClose == InitGC /\ [][NextClose]_vars

\* C18: while Close waits for the sweeper, the sweeper is never in a state
\* it cannot leave: it never waits for the catalog lock holding the write
\* lock of a key while the holder of the catalog lock waits for the read
\* lock of that key.
C18_CloseCanReturn ==
  ~(/\ pc[Closer] = "close_wait"
    /\ pc[Sweeper] = "rm_catlock"
    /\ \E q \in Clients :
         /\ catalogMu = q
         /\ pc[q] = "hit_rlock"
         /\ rwW[key[q]] = Sweeper)

\* the steps of the goroutine inside WaitAllReleased
WaitAllReleasedStep(p) ==
  \/ WaitCtxDone(p)
  \/ WaitTick(p)
  \/ WaitScan(p)

\* concurrent callers and one direct call of WaitAllReleased
NextWait ==
  \/ WaitCall
  \/ CtxEnd(Waiter)
  \/ WaitAllReleasedStep(Waiter)
  \/ \E c \in Clients : ClientAcquire(c)
  \/ \E c \in Clients : AcquireStep(c)
  \/ \E c \in Clients : RemoveVictimsStep(c)
  \/ \E c \in Clients : ClientRelease(c)
  \/ \E c \in Clients : ReleaseStep(c)

\* the goroutine in WaitAllReleased keeps running: its ticker fires every
\* 20 ms and the scheduler runs a runnable goroutine
SpecWait ==
  InitGC /\ [][NextWait]_vars /\ WF_vars(WaitAllReleasedStep(Waiter))

\* C19: once a call of WaitAllReleased stands at its select with its
\* context ended and some entry still at refs > 0, that call never returns
\* nil: it returns the context's error.
C19_ContextEndedReturnsError ==
  []((/\ pc[Waiter] = "war_select"
       /\ ctxDone[Waiter]
       /\ ~AllZero) => [](pc[Waiter] # "war_nil"))

RemoveAllStep ==
  \/ RemoveAllCall
  \/ RaCatLock
  \/ RaSgp4Enter
  \/ RaSgp4Exit
  \/ RaTleEnter
  \/ RaTleExit
  \/ RaClear
  \/ RaFail
  \/ RemoveAllReturn

\* concurrent callers and a call of RemoveAll
NextRemoveAll ==
  \/ RemoveAllStep
  \/ CtxEnd(Remover)
  \/ WaitAllReleasedStep(Remover)
  \/ \E c \in Clients : ClientAcquire(c)
  \/ \E c \in Clients : AcquireStep(c)
  \/ \E c \in Clients : RemoveVictimsStep(c)
  \/ \E c \in Clients : ClientRelease(c)
  \/ \E c \in Clients : ReleaseStep(c)

SpecRemoveAll == InitGC /\ [][NextRemoveAll]_vars

\* C20: the native remove-all of RemoveAll never removes the propagator of a
\* key while a caller holds it from Acquire unreleased, be it counted in
\* refs or only holding the key's read lock ahead of the refs increment.
C20_RemoveAllOnlyWhenDrained ==
  [][\A k \in Keys :
       (pc[Remover] = "ra_sgp4_in" /\ k \in sgp4 /\ k \notin sgp4') =>
         \A c \in Clients :
           ~(/\ key[c] = k
             /\ pc[c] \in {"miss_insert", "hit_insert", "held", "rel",
                            "rel_dec"})]_vars

\* the bytes the lines passed to parseSatNum are made of
FieldChars == {"0", "1", "9", "A", "I", "Z", " ", "+", "-"}

\* the lines passed to parseSatNum, cut after column 7: every field of
\* columns 3-7 over FieldChars, and the short lines of TestParseSatNum_Invalid
Line1Inputs ==
  {<<"1", " ">> \o f : f \in [1 .. 5 -> FieldChars]}
    \cup {<<>>, <<"1", " ", "2", "5", "4">>}

\* a direct call of parseSatNum(l1)
ParseCall ==
  /\ call.fn = None
  /\ \E l1 \in Line1Inputs :
       call' = [fn |-> "parseSatNum", arg |-> l1, res |-> <<>>]
  /\ UNCHANGED <<gcVars, hVars>>
  /\ UNCHANGED <<pc, line, ctxDone, key, victims, relT, cont, env>>

\* parseSatNum returns (satNum, nil) or (0, err)
ParseDone ==
  /\ call.fn = "parseSatNum"
  /\ call.res = <<>>
  /\ call' = [call EXCEPT !.res = <<parseSatNum(call.arg)>>]
  /\ UNCHANGED <<gcVars, hVars>>
  /\ UNCHANGED <<pc, line, ctxDone, key, victims, relT, cont, env>>

\* the caller of a function takes the result
CallReturn ==
  /\ call.fn # None
  /\ call.res # <<>>
  /\ call' = NoCall
  /\ UNCHANGED <<gcVars, hVars>>
  /\ UNCHANGED <<pc, line, ctxDone, key, victims, relT, cont, env>>

NextParse ==
  \/ ParseCall
  \/ ParseDone
  \/ CallReturn

SpecParse == InitGC /\ [][NextParse]_vars

\* C21: parseSatNum accepts line 1 exactly when columns 3-7 are five decimal
\* digits of value 1-99999, with that value as the result, or a letter A-Z
\* other than I and O followed by four digits, with
\* (letter - 'A' + 10) * 10000 + digits as the result; every other line,
\* among them short lines, space-padded fields and signed numbers, is a
\* parse error.
C21_ParseSatNum ==
  (call.fn = "parseSatNum" /\ call.res # <<>>) =>
    LET res     == call.res[1]
        f       == IF Len(call.arg) < 7 THEN <<>>
                   ELSE SubSeq(call.arg, 3, 7)
        legacy  == /\ Len(f) = 5
                   /\ \A i \in 1 .. 5 : IsDigit(f[i])
                   /\ DecimalValue(f) \in 1 .. 99999
        alpha5  == /\ Len(f) = 5
                   /\ IsUpper(f[1])
                   /\ f[1] \notin {"I", "O"}
                   /\ \A i \in 2 .. 5 : IsDigit(f[i])
    IN  /\ res.ok <=> (legacy \/ alpha5)
        /\ legacy => res.n = DecimalValue(f)
        /\ alpha5 =>
             /\ res.n = (UpperOffset(f[1]) + 10) * 10000
                          + DecimalValue(Tail(f))
             /\ res.n \in 100000 .. 359999

\* ------------------------------------------------------------------------
\* Ephem: validation of the request and the step of a task's time grid
\* ------------------------------------------------------------------------
\* the values of KnownTimeStepPeriod: empty, one minute, no duration
Periods == {"", "PT1M", "abc"}

\* the values of KnownTimeStepDs50, in days
Ds50Steps == {-1, 0, 1}

\* EphemTimeGrid: the oneof TimeStepType with the value of the selected
\* member, and whether a start or an end time is given in both formats
TimeGrids ==
  [kind : {"unset"}, dyn : {FALSE}, period : {""}, ds50 : {0},
   bothFormats : BOOLEAN]
    \cup [kind : {"dynamic"}, dyn : BOOLEAN, period : {""}, ds50 : {0},
          bothFormats : BOOLEAN]
    \cup [kind : {"period"}, dyn : {FALSE}, period : Periods, ds50 : {0},
          bothFormats : BOOLEAN]
    \cup [kind : {"ds50"}, dyn : {FALSE}, period : {""}, ds50 : Ds50Steps,
          bothFormats : BOOLEAN]

\* a grid that may be nil: <<>> or <<grid>>
OptGrids == {<<>>} \cup {<<g>> : g \in TimeGrids}

\* EphemRequest with at most one task
EphemRequests ==
  [nTasks : {0, 1}, ephemTypeOk : BOOLEAN, common : OptGrids,
   satOk : BOOLEAN, grid : OptGrids]

\* grid.GetKnownTimeStepPeriod()
GetKnownTimeStepPeriod(g) == IF g.kind = "period" THEN g.period ELSE ""

\* grid.GetKnownTimeStepDs50()
GetKnownTimeStepDs50(g) == IF g.kind = "ds50" THEN g.ds50 ELSE 0

\* validateGrid: nil exactly when TRUE
validateGrid(g) ==
  /\ ~g.bothFormats
  /\ ~(GetKnownTimeStepPeriod(g) # "" /\ GetKnownTimeStepDs50(g) # 0)

\* validateAnalytEphemRequest: nil exactly when TRUE
validateAnalytEphemRequest(req) ==
  /\ req.nTasks # 0
  /\ req.ephemTypeOk
  /\ req.common # <<>> => validateGrid(req.common[1])
  /\ req.satOk
  /\ ~(req.common = <<>> /\ req.grid = <<>>)
  /\ req.grid # <<>> => validateGrid(req.grid[1])

\* resolveTimeGrid
resolveTimeGrid(req) == IF req.grid # <<>> THEN req.grid[1] ELSE req.common[1]

\* isDynamicTimeStep
isDynamicTimeStep(g) == g.kind = "dynamic" /\ g.dyn

\* getKnownTimeStep: the step in minutes, or a panic
getKnownTimeStep(g) ==
  IF g.kind = "period"
  THEN IF g.period = "PT1M" THEN [panic |-> FALSE, step |-> 1]
       ELSE [panic |-> TRUE, step |-> 0]
  ELSE IF g.kind = "ds50" THEN [panic |-> FALSE, step |-> g.ds50 * 1440]
  ELSE [panic |-> FALSE, step |-> 0]

\* runAnalytGenEphems: the timeStep handed to Sgp4GenEphems
TimeStepOf(g) ==
  IF isDynamicTimeStep(g) THEN [panic |-> FALSE, step |-> -1]
  ELSE getKnownTimeStep(g)

\* an Ephem request arrives
StepCall ==
  /\ call.fn = None
  /\ \E req \in EphemRequests :
       call' = [fn |-> "Ephem", arg |-> req, res |-> <<>>]
  /\ UNCHANGED <<gcVars, hVars>>
  /\ UNCHANGED <<pc, line, ctxDone, key, victims, relT, cont, env>>

\* Ephem up to the first call of Sgp4GenEphems: InvalidArgument, or the
\* step of the task's grid
StepDone ==
  /\ call.fn = "Ephem"
  /\ call.res = <<>>
  /\ call' = [call EXCEPT !.res =
       IF validateAnalytEphemRequest(call.arg)
       THEN <<[valid |-> TRUE] @@ TimeStepOf(resolveTimeGrid(call.arg))>>
       ELSE <<[valid |-> FALSE, panic |-> FALSE, step |-> 0]>>]
  /\ UNCHANGED <<gcVars, hVars>>
  /\ UNCHANGED <<pc, line, ctxDone, key, victims, relT, cont, env>>

NextStep ==
  \/ StepCall
  \/ StepDone
  \/ CallReturn

SpecStep == InitGC /\ [][NextStep]_vars

\* C24: an Ephem request that passes validation hands genEphems a step that
\* is -1 or positive, and a request whose task has no grid at all, or a
\* grid that selects none of the three step policies, is rejected.
C24_ValidatedStep ==
  (call.fn = "Ephem" /\ call.res # <<>>) =>
    LET req == call.arg
        res == call.res[1]
    IN  /\ (res.valid /\ ~res.panic) => (res.step = -1 \/ res.step > 0)
        /\ (/\ req.nTasks = 1
            /\ \/ req.grid = <<>> /\ req.common = <<>>
               \/ req.grid # <<>> /\ req.grid[1].kind = "unset"
               \/ /\ req.grid = <<>>
                  /\ req.common # <<>>
                  /\ req.common[1].kind = "unset") => ~res.valid

\* ------------------------------------------------------------------------
\* The options of the registry: NewGC and the loading of the configuration
\* ------------------------------------------------------------------------
\* values.DefaultMaxLoadedSatsGc
DefaultMaxLoadedSatsGc == 500

\* values.DefaultIdleTTLGcMin, in minutes
DefaultIdleTTLGcMin == 10

\* values.DefaultSweepIntervalGcMin, in minutes
DefaultSweepIntervalGcMin == 5

\* the values of an option before its default is applied: negative, zero
\* (also a missing option), and two positive values
OptionValues == {-1, 0, 1, 7}

\* maxLoaded, idleTTL and sweepInterval as given
GcOptions ==
  [maxLoaded : OptionValues, idleTTL : OptionValues,
   sweepInterval : OptionValues]

\* NewGC: the options of the registry it builds
NewGC(o) ==
  LET m == IF o.maxLoaded < 1 THEN DefaultMaxLoadedSatsGc ELSE o.maxLoaded
      i == IF o.idleTTL <= 0 THEN DefaultIdleTTLGcMin ELSE o.idleTTL
      s == IF o.sweepInterval <= 0 THEN DefaultSweepIntervalGcMin
           ELSE o.sweepInterval
  IN  [maxLoaded |-> m, idleTTL |-> i, sweepInterval |-> s]

\* buildConfig: cfg.GC after the defaults are applied to the values read
\* from the file and the environment
buildConfig(o) ==
  LET c1 == IF o.maxLoaded <= 0
            THEN [o EXCEPT !.maxLoaded = DefaultMaxLoadedSatsGc] ELSE o
      c2 == IF c1.idleTTL <= 0
            THEN [c1 EXCEPT !.idleTTL = DefaultIdleTTLGcMin] ELSE c1
  IN  IF c2.sweepInterval <= 0
      THEN [c2 EXCEPT !.idleTTL = DefaultSweepIntervalGcMin] ELSE c2

\* NewGC or buildConfig is called
OptionsCall ==
  /\ call.fn = None
  /\ \E f \in {"NewGC", "buildConfig"}, o \in GcOptions :
       call' = [fn |-> f, arg |-> o, res |-> <<>>]
  /\ UNCHANGED <<gcVars, hVars>>
  /\ UNCHANGED <<pc, line, ctxDone, key, victims, relT, cont, env>>

NewGCDone ==
  /\ call.fn = "NewGC"
  /\ call.res = <<>>
  /\ call' = [call EXCEPT !.res = <<NewGC(call.arg)>>]
  /\ UNCHANGED <<gcVars, hVars>>
  /\ UNCHANGED <<pc, line, ctxDone, key, victims, relT, cont, env>>

BuildConfigDone ==
  /\ call.fn = "buildConfig"
  /\ call.res = <<>>
  /\ call' = [call EXCEPT !.res = <<buildConfig(call.arg)>>]
  /\ UNCHANGED <<gcVars, hVars>>
  /\ UNCHANGED <<pc, line, ctxDone, key, victims, relT, cont, env>>

NextOptions ==
  \/ OptionsCall
  \/ NewGCDone
  \/ BuildConfigDone
  \/ CallReturn

SpecOptions == InitGC /\ [][NextOptions]_vars

\* C25: in NewGC and in the loading of the configuration, each of
\* maxLoaded, idleTTL and sweepInterval that is non-positive becomes its own
\* default and each positive one keeps its value.
C25_OwnDefaults ==
  (call.fn \in {"NewGC", "buildConfig"} /\ call.res # <<>>) =>
    LET o == call.arg
        r == call.res[1]
    IN  /\ r.maxLoaded =
             IF o.maxLoaded <= 0 THEN DefaultMaxLoadedSatsGc ELSE o.maxLoaded
        /\ r.idleTTL =
             IF o.idleTTL <= 0 THEN DefaultIdleTTLGcMin ELSE o.idleTTL
        /\ r.sweepInterval =
             IF o.sweepInterval <= 0 THEN DefaultSweepIntervalGcMin
             ELSE o.sweepInterval

\* C26: every step by which the TTL sweeper removes a key from the registry
\* or from the native catalog happens in a state where the key's entry has
\* refs = 0 and has been idle for more than idleTTL.
C26_SweeperRemovesOnlyIdle ==
  [][\A k \in Keys :
       (/\ pc[Sweeper] \in {"rm_sgp4_in", "rm_tle_in", "rm_delete"}
        /\ pc'[Sweeper] # pc[Sweeper]
        /\ Head(victims[Sweeper]) = k
        /\ \/ (k \in DOMAIN loaded /\ k \notin DOMAIN loaded')
           \/ (k \in tle /\ k \notin tle')
           \/ (k \in sgp4 /\ k \notin sgp4')) =>
         /\ k \in DOMAIN loaded
         /\ loaded[k].refs = 0
         /\ now - loaded[k].lastUsed > idleTTL]_vars

\* ------------------------------------------------------------------------
\* WithDllCall under direct callers whose fn returns 0, returns an error
\* code, or panics
\* ------------------------------------------------------------------------
\* a caller invokes WithDllCall(ctx, fn)
GateCall(c) ==
  /\ pc[c] = "idle"
  /\ Goto(c, "wd_select")
  /\ ctxDone' = [ctxDone EXCEPT ![c] = FALSE]
  /\ UNCHANGED gcVars
  /\ UNCHANGED <<hVars, env, call, line, key, victims, relT, cont>>

\* select { case g.ch <- struct{}{}: }; rc := call()
GateEnter(c) ==
  /\ pc[c] = "wd_select"
  /\ DllEnter(c, "fn", "wd_in")
  /\ UNCHANGED <<loaded, tle, sgp4, catalogMu, rwW, rwReaders, errMu, now>>
  /\ UNCHANGED <<hVars, env, call, line, ctxDone, key, victims, relT, cont>>

\* select { case <-ctx.Done(): return ctx.Err() }
GateCtxDone(c) ==
  /\ pc[c] = "wd_select"
  /\ ctxDone[c]
  /\ Goto(c, "idle")
  /\ UNCHANGED gcVars
  /\ UNCHANGED <<hVars, env, call, line, ctxDone, key, victims, relT, cont>>

\* call() returns rc; <-g.ch; rc == 0: return nil, otherwise read the
\* message of the error
GateFnReturn(c) ==
  /\ pc[c] = "wd_in"
  /\ DllLeave(c)
  /\ \/ /\ Goto(c, "idle")
        /\ UNCHANGED cont
     \/ /\ Goto(c, "dll_err")
        /\ cont' = [cont EXCEPT ![c] = "idle"]
  /\ UNCHANGED <<loaded, tle, sgp4, catalogMu, rwW, rwReaders, errMu, now>>
  /\ UNCHANGED <<hVars, env, call, line, ctxDone, key, victims, relT>>

\* call() panics: WithDllCall unwinds; <-g.ch is not deferred
GateFnPanic(c) ==
  /\ pc[c] = "wd_in"
  /\ native' = [native EXCEPT ![c] = None]
  /\ Goto(c, "wd_panic")
  /\ UNCHANGED <<loaded, tle, sgp4, catalogMu, rwW, rwReaders, gate, errMu, now>>
  /\ UNCHANGED <<hVars, env, call, line, ctxDone, key, victims, relT, cont>>

\* the panic reaches a deferred recover of the caller
GateRecover(c) ==
  /\ pc[c] = "wd_panic"
  /\ Goto(c, "idle")
  /\ UNCHANGED gcVars
  /\ UNCHANGED <<hVars, env, call, line, ctxDone, key, victims, relT, cont>>

\* the panic reaches the top of the goroutine: the process ends
GateCrash(c) ==
  /\ pc[c] = "wd_panic"
  /\ pc' = [p \in Procs |-> IF p = c THEN "panicked" ELSE "dead"]
  /\ UNCHANGED gcVars
  /\ UNCHANGED <<hVars, env, call, line, ctxDone, key, victims, relT, cont>>

NextGate ==
  \/ \E c \in Callers : GateCall(c)
  \/ \E c \in Callers : CtxEnd(c)
  \/ \E c \in Callers : GateEnter(c)
  \/ \E c \in Callers : GateCtxDone(c)
  \/ \E c \in Callers : GateFnReturn(c)
  \/ \E c \in Callers : GateFnPanic(c)
  \/ \E c \in Callers : GateRecover(c)
  \/ \E c \in Callers : GateCrash(c)
  \/ \E c \in Callers : ErrReadEnter(c)
  \/ \E c \in Callers : ErrReadExit(c)

SpecGate == InitGC /\ [][NextGate]_vars

\* C27: the callers executing fn inside WithDllCall are never more than
\* the capacity of the gate, and while the process runs and no caller is
\* between taking its permit and leaving WithDllCall, no permit is in use.
C27_GatePermits ==
  /\ Cardinality({c \in Callers : native[c] = "fn"}) <= DllGateCap
  /\ (\A c \in Callers : pc[c] \in {"idle", "wd_select", "dll_err", "dll_err_in"})
       => gate = {}

\* C28: a thread that is requesting the catalog lock holds no per-key
\* lock.
C28_CatalogLockBeforeKeyLock ==
  \A p \in Clients \cup {Sweeper} :
    pc[p] \in {"acq_catlock", "add_catlock", "rm_catlock"} =>
      \A k \in Keys : rwW[k] # p

\* C29: with the sweeper running beside the callers of Acquire, no state
\* has the sweeper waiting for the catalog lock with the write lock of a
\* key held while an Acquire of that key waits for the key's read lock
\* with the catalog lock held.
C29_NoLockCycle ==
  \A c \in Clients, k \in Keys :
    ~(/\ pc[Sweeper] = "rm_catlock"
      /\ victims[Sweeper] # <<>>
      /\ Head(victims[Sweeper]) = k
      /\ rwW[k] = Sweeper
      /\ pc[c] = "hit_rlock"
      /\ key[c] = k
      /\ catalogMu = c)

\* C13: for every registry state and every need, evictLRUIfNeeded returns no
\* victim when excess = size + need - maxLoaded is <= 0, and otherwise
\* exactly min(excess, number of refs = 0 entries) distinct victims, all with
\* refs = 0, listed oldest first, none of them used later than a refs = 0
\* entry that was spared.
C13_EvictLRU ==
  \A need \in 0 .. NumSats : \A vs \in LRUVictimLists(need) :
    LET excess == Cardinality(DOMAIN loaded) + need - maxLoaded
        cand   == {k \in DOMAIN loaded : loaded[k].refs = 0}
        chosen == {vs[i] : i \in 1 .. Len(vs)}
    IN  /\ excess <= 0 => vs = <<>>
        /\ excess > 0 => Len(vs) = Min(excess, Cardinality(cand))
        /\ chosen \subseteq cand
        /\ Cardinality(chosen) = Len(vs)
        /\ \A i \in 1 .. Len(vs) - 1 :
             loaded[vs[i]].lastUsed <= loaded[vs[i + 1]].lastUsed
        /\ \A k \in cand \ chosen : \A v \in chosen :
             loaded[v].lastUsed <= loaded[k].lastUsed

\* C13 witness: the registry holds two idle entries last used at different
\* times, so that the order of the victims and the choice of the oldest one
\* matter
C13_Witness ==
  \E k, l \in DOMAIN loaded :
    /\ loaded[k].refs = 0
    /\ loaded[l].refs = 0
    /\ loaded[k].lastUsed < loaded[l].lastUsed
    /\ <<k>> \in LRUVictimLists(0)

\* ------------------------------------------------------------------------
\* Specification of the service: the Ephem, Prop and Info handlers
\* ------------------------------------------------------------------------
\* requests may be cancelled and the transport's Send may fail; the native
\* calls succeed; the clock stands still, the sweeper is not running
Init ==
  /\ InitBase
  /\ env = [faults |-> FALSE, cancel |-> TRUE, sendFail |-> TRUE]

EphemStep(r) ==
  \/ EphemInvalid(r)
  \/ EphemBegin(r)
  \/ EphemNextTask(r)
  \/ EphemTasksDone(r)
  \/ EphemAcqFail(r)
  \/ EphemRun(r)
  \/ GenEnter(r)
  \/ GenExit(r)
  \/ EphemSend(r)
  \/ EphemAfter(r)
  \/ EphemDrained(r)

SenderStep(r) ==
  \/ SenderRecv(r)
  \/ SenderSend(r)
  \/ SenderSendFail(r)
  \/ SenderClosed(r)

PropStep(r) ==
  \/ PropInvalid(r)
  \/ PropBegin(r)
  \/ PropAcqFail(r)
  \/ PropAllEnter(r)
  \/ PropAllExit(r)
  \/ PropAfter(r)

HandlerErrStep(r) ==
  \/ GenNativeErr(r)
  \/ LastErrEnter(r)
  \/ LastErrExit(r)
  \/ PropAllFail(r)
  \/ PropFailed(r)

InfoStep ==
  \/ InfoAstro
  \/ InfoSgp4
  \/ InfoReturn

ServiceStep ==
  \/ InfoStep
  \/ \E r \in Reqs : EphemStep(r)
  \/ \E r \in Reqs : SenderStep(r)
  \/ \E r \in Reqs : PropStep(r)
  \/ \E r \in Reqs : AcquireStep(r)
  \/ \E r \in Reqs : RemoveVictimsStep(r)
  \/ \E r \in Reqs : ReleaseStep(r)
  \/ \E r \in Reqs : ReqReturn(r)
  \/ \E r \in Reqs : HandlerErrStep(r)
  \/ \E r \in Reqs : NativeErrStep(r)

Next ==
  \/ ServiceStep
  \/ \E r \in Reqs : Cancel(r)

Spec == Init /\ [][Next]_vars

\* C3: whenever no Prop or Ephem handler is running (each has returned, on
\* whatever exit path, or has not been called), every satellite the handlers
\* acquired has been released: every refs is back to 0 and no per-key read
\* lock is held.
C3_ReleasedOnEveryExit ==
  (\A r \in Reqs : pc[r] \in {"idle", "ret", "panicked", "dead"}) =>
    /\ \A k \in DOMAIN loaded : loaded[k].refs = 0
    /\ \A k \in Keys : rwReaders[k] = 0

\* C4: with a gate of capacity 1, at most one native library call is
\* executing at any time, whichever component issued it.
C4_OneNativeCallAtATime ==
  Cardinality({p \in Procs : native[p] # None}) <= DllGateCap

\* the chunks delivered to the sink of request r before position j that
\* belong to the stream of the chunk at position j
EarlierOfStream(r, j) ==
  {i \in 1 .. (j - 1) : h[r].sink[i].streamId = h[r].sink[j].streamId}

\* C6: for each streamId, the streamChunkId values of the chunks delivered
\* to the sink are 0, 1, 2, ... in that order, with no gap, no repeat and no
\* reordering, at every moment of the stream (so what an aborted stream
\* delivered is a prefix of that sequence).
C6_ChunkIdsSequential ==
  \A r \in Reqs : \A j \in 1 .. Len(h[r].sink) :
    h[r].sink[j].streamChunkId = Cardinality(EarlierOfStream(r, j))

\* C6 witness: a stream that ended with an error after its chunks 0 and 1
\* had been delivered
C6_Witness ==
  \E r \in Reqs :
    /\ pc[r] = "ret"
    /\ h[r].ret \notin {"OK", None}
    /\ Len(h[r].sink) >= 2
    /\ h[r].sink[2].streamChunkId = 1

\* C7: within one Ephem request the chunks reach the sink in the order of
\* the tasks: streamIds never decrease along the sink, each streamId is the
\* position index of a task that has been started, and the points of a chunk
\* are those of the satellite of the task at that position.
C7_TasksInOrder ==
  \A r \in Reqs :
    /\ \A i, j \in 1 .. Len(h[r].sink) :
         i < j => h[r].sink[i].streamId <= h[r].sink[j].streamId
    /\ \A j \in 1 .. Len(h[r].sink) :
         LET c == h[r].sink[j] IN
           /\ c.streamId \in 0 .. (Len(h[r].tasks) - 1)
           /\ \A n \in 1 .. Len(c.points) :
                c.points[n].X = KeyOf(h[r].tasks[c.streamId + 1].line)

\* C7 witness: chunks of task 0 and then of task 1, for different
\* satellites, have been delivered
C7_Witness ==
  \E r \in Reqs :
    /\ Len(h[r].sink) >= 3
    /\ h[r].sink[1].streamId = 0
    /\ h[r].sink[Len(h[r].sink)].streamId = 1
    /\ h[r].tasks[1].line # h[r].tasks[2].line

RECURSIVE SumCounts(_)
SumCounts(s) == IF s = <<>> THEN 0 ELSE Head(s).count + SumCounts(Tail(s))

RECURSIVE SumPoints(_)
SumPoints(s) == IF s = <<>> THEN 0 ELSE Len(Head(s).points) + SumPoints(Tail(s))

\* C8: every chunk delivered declares a point count equal to the number of
\* points it carries, and the declared counts of a stream add up to the
\* number of points delivered.
C8_CountMatchesPoints ==
  \A r \in Reqs :
    /\ \A j \in 1 .. Len(h[r].sink) :
         /\ h[r].sink[j].count = Len(h[r].sink[j].points)
         /\ h[r].sink[j].count >= 1
    /\ SumCounts(h[r].sink) = SumPoints(h[r].sink)

\* C8 witness: a full chunk and a shorter last chunk of a task have been
\* delivered
C8_Witness ==
  \E r \in Reqs :
    /\ Len(h[r].sink) >= 2
    /\ h[r].sink[1].count = StreamChunkSize
    /\ h[r].sink[2].count < StreamChunkSize
    /\ h[r].sink[2].streamId = h[r].sink[1].streamId

\* C9: every response delivered to a request carries that request's reqId,
\* and every Ephem chunk carries the taskId of the task whose index is the
\* chunk's streamId.
C9_ResponsesCarryOwnIds ==
  \A r \in Reqs :
    /\ \A j \in 1 .. Len(h[r].sink) :
         /\ h[r].sink[j].reqId = ReqIdOf(r)
         /\ h[r].sink[j].taskId = TaskIdOf(h[r].sink[j].streamId)
    /\ (pc[r] = "ret" /\ h[r].kind = "Prop" /\ h[r].ret = "OK") =>
         h[r].propResp.reqId = ReqIdOf(r)

\* C9 witness: a chunk of the second task of an Ephem request has been
\* delivered while the handler of the other request is returning
C9_Witness ==
  \E r, q \in Reqs :
    /\ r # q
    /\ Len(h[r].sink) >= 1
    /\ h[r].sink[Len(h[r].sink)].streamId = 1
    /\ pc[q] = "ret"

\* C10: once the context of an Ephem request has been cancelled after the
\* client had received at least one chunk, no further chunk is delivered to
\* the sink, and the handler, when it returns without a failed Send, returns
\* the cancellation error.
C10_CancelStopsStream ==
  \A r \in Reqs :
    (h[r].kind = "Ephem" /\ ctxDone[r] /\ h[r].cancelAt >= 1) =>
      /\ Len(h[r].sink) = h[r].cancelAt
      /\ (pc[r] = "ret" /\ h[r].errCh = None) => h[r].ret = "Canceled"

\* C11: when a Send of the sink has failed and the request's context is
\* live, the value the Ephem handler returns is that send error, whichever
\* path the producer took afterwards.
C11_SendErrorReturned ==
  \A r \in Reqs :
    (/\ pc[r] = "ret"
     /\ h[r].kind = "Ephem"
     /\ h[r].errCh = "SendError"
     /\ ~ctxDone[r]) =>
      h[r].ret = "SendError"

\* C15: while an Ephem handler holds the global mutex, a request of the
\* service (Prop, Ephem or Info) that has not started yet takes no step into
\* a native call, into Acquire or past the global mutex.
C15_RequestsSerialized ==
  [][\A r \in Reqs :
       (globMu = r /\ h[r].kind = "Ephem") =>
         \A p \in (Reqs \cup {InfoProc}) \ {r} :
           pc[p] = "idle" =>
             /\ native'[p] = None
             /\ pc'[p] \in {"idle", "ret", "dead"}]_vars

\* C22: a Prop or Ephem request that ends at a task whose line 1 carries an
\* unparseable catalog number returns InvalidArgument.
C22_ParseErrorIsInvalidArgument ==
  \A r \in Reqs :
    (/\ pc[r] = "ret"
     /\ h[r].tasks # <<>>
     /\ ~ParseOk(h[r].tasks[Len(h[r].tasks)].line)) =>
       h[r].ret = "InvalidArgument"

\* C23: an Ephem request that has reached a task whose known-period step is
\* no ISO-8601 duration does not crash the handler: the handler never ends
\* in a panic, and when it has ended it has returned an error and the
\* satellite's refs and read lock are released.
C23_BadPeriodFailsRequest ==
  \A r \in Reqs :
    (/\ h[r].kind = "Ephem"
     /\ h[r].tasks # <<>>
     /\ StepPanics(h[r].tasks[Len(h[r].tasks)].step)) =>
       /\ pc[r] # "panicked"
       /\ pc[r] = "ret" =>
            /\ h[r].ret \notin {"OK", "panic"}
            /\ \A k \in DOMAIN loaded : loaded[k].refs = 0
            /\ \A k \in Keys : rwReaders[k] = 0

\* the service under failing native calls and live contexts
InitF ==
  /\ InitBase
  /\ env = [faults |-> TRUE, cancel |-> FALSE, sendFail |-> TRUE]

NextF ==
  \/ ServiceStep
  \/ \E r \in Reqs : AddFailStep(r)
  \/ \E r \in Reqs : GenAllocFail(r)

SpecF == InitF /\ [][NextF]_vars

\* the positions of a request between a failed native add or initialize and
\* the handler's branch for a failed Acquire
AcqFailing(p) == cont[p] \in {"add_addfail", "add_initfail"}

\* C16: after TleAddSatFrLines or Sgp4InitSat has failed inside Acquire, the
\* caller proceeds only to Acquire's error return and from there to its
\* branch for a failed Acquire; none of its steps on the way creates a
\* registry entry, raises a refs counter or takes a read lock; and when
\* Acquire has returned the error the caller holds neither the catalog lock
\* nor any per-key write lock.
C16_FailedAcquireLeavesNothing ==
  /\ [](\A p \in Reqs :
          AcqFailing(p) =>
            pc[p] \in {"dll_err", "dll_err_in", "add_addfail",
                       "add_initfail", "acq_fail", "dead"})
  /\ [][\A p \in Reqs :
          (AcqFailing(p) /\ pc'[p] # pc[p]) =>
            /\ loaded' = loaded
            /\ rwReaders' = rwReaders
            /\ pc[p] = "acq_fail" =>
                 pc'[p] \in {"e_acqfail", "p_acqfail", "dead"}]_vars
  /\ [](\A p \in Reqs :
          pc[p] \in {"acq_fail", "e_acqfail", "p_acqfail"} =>
            /\ catalogMu # p
            /\ \A k \in Keys : rwW[k] # p)

\* C16 witness: Sgp4InitSat has failed for a satellite that TleAddSatFrLines
\* added, and Acquire is at its error return
C16_Witness ==
  \E p \in Reqs :
    /\ pc[p] = "acq_fail"
    /\ cont[p] = "add_initfail"
    /\ key[p] \in tle
    /\ key[p] \notin sgp4
    /\ key[p] \notin DOMAIN loaded

\* C30: every step by which Acquire returns a key to its caller happens
\* with the satellite of that key both in the native TLE catalog and
\* initialized in the native SGP4 state.
C30_ReturnedKeyInitialized ==
  [][\A p \in Reqs :
       (/\ pc[p] \in {"miss_insert", "hit_insert"}
        /\ pc'[p] = AcqOkPc(p)) =>
         /\ key[p] \in tle
         /\ key[p] \in sgp4]_vars

\* C31: while a caller is between its failing native call and its read of
\* the last-error message, no other native call and no other read of the
\* last-error message is executing.
C31_LastErrorOfFailingCall ==
  \A p \in Procs :
    pc[p] \in {"dll_err", "e_lasterr"} =>
      \A q \in Procs \ {p} : native[q] = None

\* C32: with no native fault, every step by which a handler's eviction
\* deletes a victim's registry entry happens after the native removals of
\* the victim at both layers were invoked, so the victim has left the
\* native TLE catalog and the native SGP4 state, also when the context of
\* the request is cancelled.
C32_EvictionIgnoresCancel ==
  [][\A p \in Reqs, k \in Keys :
       (/\ pc[p] = "rm_delete"
        /\ Head(victims[p]) = k
        /\ k \in DOMAIN loaded
        /\ k \notin DOMAIN loaded') =>
         /\ k \notin tle
         /\ k \notin sgp4]_vars

C34_NativeErrorAbortsTask ==
  [][\A r \in Reqs :
       (pc[r] = "e_lasterr_in" /\ pc'[r] \notin {"e_lasterr_in", "dead"}) =>
         /\ pc'[r] = "rel"
         /\ h'[r].terr # None]_vars

\* ------------------------------------------------------------------------
\* The chunk loop of runAnalytGenEphems on its own, for grids of small and
\* of large DS50 times
\* ------------------------------------------------------------------------
\* the most points a run of the loop may emit
MaxPoints == 8

\* finite grids of up to five points: from time 0 with step StepLen, and
\* from BigTime with step BigUlp
LoopGrids ==
  {[start |-> GridStart, end |-> GridStart + m * StepLen, step |-> StepLen] :
     m \in 0 .. 4}
    \cup {[start |-> BigTime, end |-> BigTime + m * BigUlp, step |-> BigUlp] :
            m \in 0 .. 4}

ChunkSizes == 1 .. 4

\* the times of the points of a flat array
RECURSIVE TimesOf(_)
TimesOf(flat) ==
  IF Len(flat) < 7 THEN <<>>
  ELSE <<flat[1]>> \o TimesOf(SubSeq(flat, 8, Len(flat)))

\* chunkID := 0; timeStart := timeGrid.TimeStartDs50
LoopCall ==
  /\ call.fn = None
  /\ \E g \in LoopGrids, cs \in ChunkSizes :
       call' = [fn |-> "runAnalytGenEphems",
                arg |-> [grid |-> g, chunkSize |-> cs, timeStart |-> g.start,
                         sent |-> <<>>],
                res |-> <<>>]
  /\ UNCHANGED <<gcVars, hVars>>
  /\ UNCHANGED <<pc, line, ctxDone, key, victims, relT, cont, env>>

\* one iteration: Sgp4GenEphems, the chunk is sent, break or timeStart = next
LoopIter ==
  /\ call.fn = "runAnalytGenEphems"
  /\ call.res = <<>>
  /\ Len(call.arg.sent) < MaxPoints
  /\ LET a == call.arg
         g == Sgp4GenEphems(1, a.timeStart, a.grid.end, a.grid.step, a.chunkSize)
         sent == a.sent \o TimesOf(g.flat)
     IN  call' = IF g.done
                 THEN [call EXCEPT !.arg.sent = sent, !.res = <<"nil">>]
                 ELSE [call EXCEPT !.arg.sent = sent, !.arg.timeStart = g.next]
  /\ UNCHANGED <<gcVars, hVars>>
  /\ UNCHANGED <<pc, line, ctxDone, key, victims, relT, cont, env>>

NextLoop ==
  \/ LoopCall
  \/ LoopIter
  \/ CallReturn

SpecLoop == InitGC /\ [][NextLoop]_vars

\* C35: in the chunk loop over a finite grid, every iteration that does not
\* end the loop leaves timeStart strictly greater than it was, and no time
\* is emitted twice.
C35_ChunkLoopProgress ==
  [][(/\ call.fn = "runAnalytGenEphems"
      /\ call'.fn = "runAnalytGenEphems"
      /\ call.res = <<>>) =>
       /\ call'.res = <<>> => call'.arg.timeStart > call.arg.timeStart
       /\ \A i, j \in 1 .. Len(call'.arg.sent) :
            i # j => call'.arg.sent[i] # call'.arg.sent[j]]_vars

\* C36: when Ephem has returned after starting the sender, resultsCh is
\* closed and the sender has terminated; once resultsCh is closed the
\* handler only waits for the sender and returns, so it neither closes the
\* channel again nor sends on it; and nothing reaches the sink after the
\* return.
C36_SenderStoppedAtReturn ==
  /\ [](\A r \in Reqs :
          /\ (pc[r] = "ret" /\ h[r].kind = "Ephem" /\ h[r].spc # "off") =>
                (h[r].chClosed /\ h[r].spc = "done")
          /\ h[r].chClosed => pc[r] \in {"e_drain", "ret"})
  /\ [][\A r \in Reqs :
          /\ (h[r].chClosed /\ h'[r].chClosed) =>
                Len(h'[r].resultsCh) <= Len(h[r].resultsCh)
          /\ (pc[r] = "ret" /\ pc'[r] = "ret") => h'[r].sink = h[r].sink]_vars

\* C36 witness: Ephem has returned an error after chunks were delivered,
\* with the channel closed and the sender terminated
C36_Witness ==
  \E r \in Reqs :
    /\ pc[r] = "ret"
    /\ h[r].kind = "Ephem"
    /\ h[r].chClosed
    /\ h[r].spc = "done"
    /\ h[r].sink # <<>>
    /\ h[r].ret \notin {"OK", None}

\* C37: with a context that is never cancelled, the producer of an Ephem is
\* never left waiting to send on a full resultsCh that the sender, stopped
\* by a failed Send, no longer drains.
C37_ProducerNeverStuck ==
  \A r \in Reqs :
    ~(/\ pc[r] = "e_send"
      /\ ~ctxDone[r]
      /\ h[r].spc = "done"
      /\ h[r].errCh = "SendError"
      /\ Len(h[r].resultsCh) >= StreamChunkSize)

\* C38: no step lowers the lastUsed of an entry that stays in the
\* registry.
C38_LastUsedMonotonic ==
  [][\A k \in Keys :
       (k \in DOMAIN loaded /\ k \in DOMAIN loaded') =>
         loaded'[k].lastUsed >= loaded[k].lastUsed]_vars

\* C39: with the registry used only by the Prop and Ephem handlers, at most
\* one reference is counted over all entries and at most one per-key read
\* lock is held.
C39_OneReferenceAtATime ==
  /\ \A k \in DOMAIN loaded : loaded[k].refs <= 1
  /\ \A k1, k2 \in DOMAIN loaded :
       (loaded[k1].refs > 0 /\ loaded[k2].refs > 0) => k1 = k2
  /\ \A k \in Keys : rwReaders[k] <= 1
  /\ \A k1, k2 \in Keys :
       (rwReaders[k1] > 0 /\ rwReaders[k2] > 0) => k1 = k2

\* C39 witness: a handler holds globMu, a reference and the read lock of
\* its key while the other request has not entered its handler, and the
\* registry also holds an entry that an earlier request released
C39_Witness ==
  \E r1, r2 \in Reqs, k1, k2 \in Keys :
    /\ r1 # r2
    /\ k1 # k2
    /\ globMu = r1
    /\ pc[r2] = "idle"
    /\ k1 \in DOMAIN loaded
    /\ loaded[k1].refs = 1
    /\ rwReaders[k1] = 1
    /\ k2 \in DOMAIN loaded
    /\ loaded[k2].refs = 0

\* ------------------------------------------------------------------------
\* flatEphemsToEphemDataArr on flat arrays of every length up to MaxFlatLen
\* ------------------------------------------------------------------------
MaxFlatLen == 15

\* flat arrays whose elements are all different: first, first + 1, ...
FlatInputs ==
  {[i \in 1 .. len |-> first + i] : len \in 0 .. MaxFlatLen, first \in 0 .. 3}

FlatCall ==
  /\ call.fn = None
  /\ \E flat \in FlatInputs :
       call' = [fn |-> "flatEphemsToEphemDataArr", arg |-> flat, res |-> <<>>]
  /\ UNCHANGED <<gcVars, hVars>>
  /\ UNCHANGED <<pc, line, ctxDone, key, victims, relT, cont, env>>

\* the points, or the error for len < 7 and for len % 7 != 0
FlatDone ==
  /\ call.fn = "flatEphemsToEphemDataArr"
  /\ call.res = <<>>
  /\ call' = [call EXCEPT !.res =
       IF FlatOk(call.arg)
       THEN <<[ok |-> TRUE, points |-> flatEphemsToEphemDataArr(call.arg)]>>
       ELSE <<[ok |-> FALSE, points |-> <<>>]>>]
  /\ UNCHANGED <<gcVars, hVars>>
  /\ UNCHANGED <<pc, line, ctxDone, key, victims, relT, cont, env>>

NextFlat ==
  \/ FlatCall
  \/ FlatDone
  \/ CallReturn

SpecFlat == InitGC /\ [][NextFlat]_vars

\* C40: the conversion of a flat array of length L succeeds exactly when
\* L mod 7 = 0, and then yields L/7 points, point i made in order of the
\* elements 7i .. 7i+6.
C40_FlatConversion ==
  (call.fn = "flatEphemsToEphemDataArr" /\ call.res # <<>>) =>
    LET flat == call.arg
        res == call.res[1]
        L == Len(flat)
    IN  /\ res.ok <=> (L % 7 = 0)
        /\ res.ok =>
             /\ Len(res.points) = L \div 7
             /\ \A i \in 0 .. (L \div 7) - 1 :
                  res.points[i + 1] =
                    [Ds50Time |-> flat[7 * i + 1], X |-> flat[7 * i + 2],
                     Y |-> flat[7 * i + 3], Z |-> flat[7 * i + 4],
                     Vx |-> flat[7 * i + 5], Vy |-> flat[7 * i + 6],
                     Vz |-> flat[7 * i + 7]]

====
